---------------------------- MODULE Spec2Model ----------------------------
(***************************************************************************)
(* A model of the wallet health generator (src/src/wallet-generator.ts,    *)
(* src/src/index.ts): the top-level run of generateAllWallets against a    *)
(* regtest node, one step per RPC the code awaits.                         *)
(*                                                                         *)
(* The node is the program's environment.  Its wallet set (onDisk, loaded),*)
(* its chain height (blocks) and, while fundWallet runs, the balances of   *)
(* the wallet being funded and of the 'miner' wallet (ledger) are state;   *)
(* an RPC fails either for a reason the node state gives (wallet missing,  *)
(* not loaded, already present) or as one of at most MaxFaults injected    *)
(* gateway failures (node unreachable, timeout).                           *)
(***************************************************************************)
EXTENDS Integers, Sequences, FiniteSets, TLC

(***************************************************************************)
(* Bounds of the model.                                                    *)
(***************************************************************************)
MaxRuns   == 2      \* runs of the process (main) in one behaviour
MaxFaults == 1      \* injected gateway failures in one behaviour
MaxCalls  == 3      \* repeated calls of the ensure-wallet step (SpecEnsure)
MaxBlocks == 160    \* chain heights are counted up to this height
MaxRand   == 2      \* distinct values Math.random() is drawn from
Fee       == 1      \* the fee the node charges a sending wallet, in units
MaxExecs  == 2      \* executions of the key chain (SpecKeys)
BlockRewardBTC == 50  \* the node's coinbase reward per block, in BTC
MaxPolls  == 20     \* balance reads a polling fundWallet is followed for

(***************************************************************************)
(* Program constants.                                                      *)
(***************************************************************************)
COIN            == 100   \* Math.floor(amount * 100) / 100: units per BTC
MatureHeight    == 101   \* setupBitcoinEnvironment: info.blocks < 101
InitialBlocks   == 101   \* setupInitialState: generatetoaddress 101
FundBlocks      == 50    \* fundWallet: generatetoaddress 50
ConfirmBlocks   == 1     \* fundWallet: generatetoaddress 1
ShortCircuitBTC == 5     \* fundWallet: currentBalance > 5
FallbackBTC     == 1     \* fundWallet: balanceAfterMining < 1, finalBalance < 1
MinerMarginBTC  == 10    \* fundWallet: minerBalance > 10
TransferBTC     == 5     \* fundWallet: sendtoaddress address 5
NumSigners      == 2     \* createSignerWallets: for (i = 0; i < 2; i++)
MultisigBlocks  == 6     \* fundMultisigAddresses: generatetoaddress 6

Scenarios == <<"bad_privacy", "bad_waste", "good_privacy", "good_waste">>

ScenarioSet == {Scenarios[k] : k \in 1..Len(Scenarios)}

(***************************************************************************)
(* Wallet names.  `${scenario}_signer_${i}` and `${scenario}_watcher` are  *)
(* kept as the pair of their parts; 'miner' has no scenario.               *)
(***************************************************************************)
SignerName(s, i) == <<s, "signer", i>>

WatcherName(s) == <<s, "watcher", 0>>

Miner == <<"", "miner", 0>>

NoWallet == <<"", "", 0>>

ScenarioWallets(s) == {SignerName(s, i) : i \in 1..NumSigners} \cup {WatcherName(s)}

AllWallets == {Miner} \cup UNION {ScenarioWallets(s) : s \in ScenarioSet}

\* cleanupPreviousWallets: per scenario signer_1, signer_2, then the watcher.
CleanupOrder ==
  LET per(s) == <<SignerName(s, 1), SignerName(s, 2), WatcherName(s)>>
  IN  per(Scenarios[1]) \o per(Scenarios[2]) \o per(Scenarios[3]) \o per(Scenarios[4])

VARIABLES
  pc,            \* the await the process is at ("idle": no process runs)
  run,           \* runs of main started so far
  exitCode,      \* exit code of the last run that ended (-1: none yet)
  faults,        \* injected gateway failures so far
  blocks,        \* chain height of the node
  onDisk,        \* wallets in the node's wallet directory
  loaded,        \* wallets the node has loaded
  files,         \* scenarios whose tmp/<name>_caravan.json exists
  filesAtStart,  \* files when the current run started
  visited,       \* this run's loop of generateAllWallets: what it did per scenario
  endLoaded,     \* loaded as left by each run that completed, since the last restart
  scen,          \* index in Scenarios of the loop of generateAllWallets
  cleanIdx,      \* index in CleanupOrder of cleanupPreviousWallets
  sgn,           \* i of the loop of createSignerWallets
  conn,          \* wallet name the current wallet client is bound to
  signers,       \* the signers array built so far
  lastRpc,       \* the RPC issued last in this run
  ensureLog,     \* RPC methods issued by the ensure-wallet step in progress
  calls,         \* calls of the ensure-wallet step in a row on one wallet
  ledger,        \* balances of `wallet` and of 'miner' while fundWallet runs
  fw,            \* locals of fundWallet
  descriptor,    \* descriptor submitted last to importdescriptors
  kNode,         \* SpecKeys: what listdescriptors answers per signer wallet
  kRuns,         \* SpecKeys: the results of the executions of the key chain
  addrs,         \* addresses getnewaddress has handed out to the function in progress
  pays,          \* sendtoaddress and sendmany calls of the function in progress
  lp,            \* locals of createMultisigAddress, fundMultisigAddresses, a pattern
  msCalls,       \* createmultisig calls of createMultisigAddress: threshold and keys
  fixture,       \* the document saveCaravanConfig has just written
  keyless        \* wallets created with disable_private_keys = true

nodeVars  == <<blocks, onDisk, loaded>>
runVars   == <<run, exitCode, filesAtStart, visited, endLoaded>>
loopVars  == <<scen, cleanIdx, sgn, conn, signers>>
fundVars  == <<ledger, fw>>
keyVars   == <<kNode, kRuns>>
stepVars  == <<addrs, pays, lp, msCalls>>
chainVars == <<stepVars, fixture, keyless>>
vars == <<pc, faults, files, lastRpc, ensureLog, calls, descriptor,
          nodeVars, runVars, loopVars, fundVars, keyVars, chainVars>>

Max(a, b) == IF a >= b THEN a ELSE b

Min(a, b) == IF a < b THEN a ELSE b

(***************************************************************************)
(* RPC bookkeeping.  target is the wallet an RPC acts on: the wallet       *)
(* context of the client, the wallet named in the arguments, or the wallet *)
(* owning the address it pays.  err is "" when the RPC succeeded, else the *)
(* kind of error raised:                                                   *)
(*   "conn"      injected gateway failure (no wallet error code)           *)
(*   "notfound"  code -18, wallet does not exist or is not loaded          *)
(*   "exists"    createwallet of a wallet on disk ("... already exists")   *)
(*   "funds"     insufficient funds                                        *)
(*   "other"     any other error of the node                               *)
(***************************************************************************)
NoRpc == [site |-> "", method |-> "", target |-> NoWallet, err |-> "",
          args |-> <<>>]

Issue(site, method, target, err) ==
  lastRpc' = [site |-> site, method |-> method, target |-> target, err |-> err,
              args |-> <<>>]

\* The answers an RPC can get: the one the node state gives, or an injected
\* gateway failure while the budget lasts.
Answers(natural) ==
  {natural} \cup (IF faults < MaxFaults THEN {"conn"} ELSE {})

Charge(err) == faults' = IF err = "conn" THEN faults + 1 ELSE faults

\* What the node answers to the wallet-lifecycle RPCs.
LoadErr(w) ==
  IF w \notin onDisk THEN "notfound" ELSE IF w \in loaded THEN "other" ELSE ""

CreateErr(w) == IF w \in onDisk THEN "exists" ELSE ""

UnloadErr(w) == IF w \in loaded THEN "" ELSE "notfound"

\* An RPC in the context of wallet w needs w loaded.
WalletErr(w) == IF w \in loaded THEN "" ELSE "notfound"

\* generatetoaddress n: the chain grows by n blocks.
Mined(n) == Min(blocks + n, MaxBlocks)

(***************************************************************************)
(* fundWallet's view of the node's ledger: spendable balance, immature     *)
(* coinbase and unconfirmed incoming payments of the wallet being funded   *)
(* ("wallet") and of 'miner'.                                              *)
(***************************************************************************)
Parties == {"wallet", "miner"}

NoLedger == [bal      |-> [p \in Parties |-> 0],
             immature |-> [p \in Parties |-> 0],
             pending  |-> [p \in Parties |-> 0]]

NoFw == [cur |-> -1, after |-> -1, miner |-> -1, final |-> -1,
         reads |-> 0, delays |-> 0, i |-> 0]

\* No descriptor was submitted yet.
NoDescriptor == [script |-> "", required |-> 0, keys |-> <<>>, suffix |-> "",
                 imported |-> FALSE]

\* No function with locals of its own is in progress.
NoLp == [bal |-> -1, start |-> -1, i |-> 0, j |-> 0, addr |-> 0, first |-> 0,
         keys |-> <<>>, outs |-> <<>>]

NoFixture == [name |-> "", requiredSigners |-> 0, totalSigners |-> 0,
              keys |-> <<>>, walletName |-> NoWallet]

(***************************************************************************)
(* main (src/src/index.ts) and the process around it.                      *)
(***************************************************************************)
\* A process is started: main() calls generateAllWallets, which first awaits
\* setupBitcoinEnvironment.
StartRun ==
  /\ pc = "idle"
  /\ run < MaxRuns
  /\ pc' = "su_info"
  /\ run' = run + 1
  /\ filesAtStart' = files
  /\ visited' = <<>>
  /\ lastRpc' = NoRpc
  /\ scen' = 1 /\ cleanIdx' = 1 /\ sgn' = 0 /\ conn' = NoWallet /\ signers' = <<>>
  /\ descriptor' = NoDescriptor
  /\ UNCHANGED <<exitCode, endLoaded, faults, files, ensureLog, calls,
                 nodeVars, fundVars, keyVars, chainVars>>

\* The process ends: what it held in memory is gone.
ProcessEnds ==
  /\ pc' = "idle"
  /\ scen' = 1 /\ cleanIdx' = 1 /\ sgn' = 0 /\ conn' = NoWallet /\ signers' = <<>>
  /\ ledger' = NoLedger
  /\ fw' = NoFw
  /\ descriptor' = NoDescriptor
  /\ ensureLog' = <<>>
  /\ addrs' = 0 /\ pays' = <<>> /\ lp' = NoLp /\ msCalls' = <<>>
  /\ fixture' = NoFixture

\* generateAllWallets returned: main logs the duration and the process ends.
MainReturn ==
  /\ pc = "main_done"
  /\ ProcessEnds
  /\ exitCode' = 0
  /\ endLoaded' = Append(endLoaded, loaded)
  /\ UNCHANGED <<run, filesAtStart, visited, faults, files, lastRpc, calls,
                 nodeVars, keyVars, keyless>>

\* main's catch: generator.cleanup() only logs, then process.exit(1).
MainCatch ==
  /\ pc = "main_catch"
  /\ ProcessEnds
  /\ exitCode' = 1
  /\ UNCHANGED <<run, filesAtStart, visited, endLoaded, faults, files, lastRpc,
                 calls, nodeVars, keyVars, keyless>>

\* Between two runs the node is restarted: it comes back with no wallet loaded.
NodeRestart ==
  /\ pc = "idle"
  /\ run < MaxRuns
  /\ loaded # {}
  /\ loaded' = {}
  /\ endLoaded' = <<>>
  /\ UNCHANGED <<pc, run, exitCode, filesAtStart, visited, faults, files,
                 lastRpc, ensureLog, calls, descriptor, blocks, onDisk,
                 loopVars, fundVars, keyVars, chainVars>>

(***************************************************************************)
(* setupBitcoinEnvironment, setupInitialState, ensureMinerWallet.          *)
(***************************************************************************)
\* A setup that would carry on with the cleanup after an error; C7 has to
\* tell it from SetupOnError.
SetupCarriesOn == "cl_unload"

\* setupBitcoinEnvironment's catch: any error in it is rethrown as 'Bitcoin
\* Core not accessible'; generateAllWallets lets it through to main's catch.
SetupOnError == "main_catch"

\* Where a run continues when setupBitcoinEnvironment returned.
AfterSetup == "cl_unload"

\* const info = await this.baseClient.command('getblockchaininfo')
SuInfo ==
  /\ pc = "su_info"
  /\ \E err \in Answers("") :
       /\ Charge(err)
       /\ Issue("su_info", "getblockchaininfo", NoWallet, err)
       /\ pc' = IF err # "" THEN SetupOnError
                ELSE IF blocks < MatureHeight THEN "si_create" ELSE "su_em_list"
  /\ UNCHANGED <<files, ensureLog, calls, descriptor, nodeVars, runVars,
                 loopVars, fundVars, keyVars, chainVars>>

\* setupInitialState: createwallet 'miner'; its catch loads the wallet unless
\* the message says 'already exists'.
SiCreate ==
  /\ pc = "si_create"
  /\ \E err \in Answers(CreateErr(Miner)) :
       /\ Charge(err)
       /\ Issue("si_create", "createwallet", Miner, err)
       /\ IF err = ""
            THEN onDisk' = onDisk \cup {Miner} /\ loaded' = loaded \cup {Miner}
            ELSE UNCHANGED <<onDisk, loaded>>
       /\ pc' = IF err \in {"", "exists"} THEN "si_addr" ELSE "si_load"
  /\ UNCHANGED <<files, ensureLog, calls, descriptor, blocks, runVars,
                 loopVars, fundVars, keyVars, chainVars>>

\* setupInitialState: loadwallet 'miner' inside the catch: an error leaves
\* setupInitialState.
SiLoad ==
  /\ pc = "si_load"
  /\ \E err \in Answers(LoadErr(Miner)) :
       /\ Charge(err)
       /\ Issue("si_load", "loadwallet", Miner, err)
       /\ loaded' = IF err = "" THEN loaded \cup {Miner} ELSE loaded
       /\ pc' = IF err = "" THEN "si_addr" ELSE SetupOnError
  /\ UNCHANGED <<files, ensureLog, calls, descriptor, blocks, onDisk, runVars,
                 loopVars, fundVars, keyVars, chainVars>>

\* setupInitialState: minerClient.command('getnewaddress')
SiAddr ==
  /\ pc = "si_addr"
  /\ \E err \in Answers(WalletErr(Miner)) :
       /\ Charge(err)
       /\ Issue("si_addr", "getnewaddress", Miner, err)
       /\ pc' = IF err = "" THEN "si_gen" ELSE SetupOnError
  /\ UNCHANGED <<files, ensureLog, calls, descriptor, nodeVars, runVars,
                 loopVars, fundVars, keyVars, chainVars>>

\* setupInitialState: generatetoaddress 101 to the miner's address.
SiGen ==
  /\ pc = "si_gen"
  /\ \E err \in Answers("") :
       /\ Charge(err)
       /\ Issue("si_gen", "generatetoaddress", Miner, err)
       /\ blocks' = IF err = "" THEN Mined(InitialBlocks) ELSE blocks
       /\ pc' = IF err = "" THEN AfterSetup ELSE SetupOnError
  /\ UNCHANGED <<files, ensureLog, calls, descriptor, onDisk, loaded, runVars,
                 loopVars, fundVars, keyVars, chainVars>>

\* ensureMinerWallet: listwallets.  An error here is caught by its catch, whose
\* condition (message includes 'already exists') it does not meet: the function
\* returns.
EmList(here, create, ret) ==
  /\ pc = here
  /\ \E err \in Answers("") :
       /\ Charge(err)
       /\ Issue(here, "listwallets", NoWallet, err)
       /\ pc' = IF err = "" /\ Miner \notin loaded THEN create ELSE ret
  /\ UNCHANGED <<files, ensureLog, calls, descriptor, nodeVars, runVars,
                 loopVars, fundVars, keyVars, chainVars>>

\* ensureMinerWallet: createwallet 'miner'; on 'already exists' the catch
\* loads the wallet, any other error is dropped.
EmCreate(here, load, ret) ==
  /\ pc = here
  /\ \E err \in Answers(CreateErr(Miner)) :
       /\ Charge(err)
       /\ Issue(here, "createwallet", Miner, err)
       /\ IF err = ""
            THEN onDisk' = onDisk \cup {Miner} /\ loaded' = loaded \cup {Miner}
            ELSE UNCHANGED <<onDisk, loaded>>
       /\ pc' = IF err = "exists" THEN load ELSE ret
  /\ UNCHANGED <<files, ensureLog, calls, descriptor, blocks, runVars,
                 loopVars, fundVars, keyVars, chainVars>>

\* ensureMinerWallet: loadwallet 'miner' inside the catch: an error leaves
\* ensureMinerWallet and reaches the caller.
EmLoad(here, ret, throwTo) ==
  /\ pc = here
  /\ \E err \in Answers(LoadErr(Miner)) :
       /\ Charge(err)
       /\ Issue(here, "loadwallet", Miner, err)
       /\ loaded' = IF err = "" THEN loaded \cup {Miner} ELSE loaded
       /\ pc' = IF err = "" THEN ret ELSE throwTo
  /\ UNCHANGED <<files, ensureLog, calls, descriptor, blocks, onDisk, runVars,
                 loopVars, fundVars, keyVars, chainVars>>

\* ensureMinerWallet as called by setupBitcoinEnvironment.
SuEmList == EmList("su_em_list", "su_em_create", AfterSetup)

SuEmCreate == EmCreate("su_em_create", "su_em_load", AfterSetup)

SuEmLoad == EmLoad("su_em_load", AfterSetup, SetupOnError)

(***************************************************************************)
(* cleanupPreviousWallets.                                                 *)
(***************************************************************************)
\* unloadwallet of the next name of CleanupOrder; an error is ignored.
ClUnload ==
  /\ pc = "cl_unload"
  /\ LET w == CleanupOrder[cleanIdx] IN
     \E err \in Answers(UnloadErr(w)) :
       /\ Charge(err)
       /\ Issue("cl_unload", "unloadwallet", w, err)
       /\ loaded' = IF err = "" THEN loaded \ {w} ELSE loaded
  /\ IF cleanIdx < Len(CleanupOrder)
       THEN pc' = "cl_unload" /\ cleanIdx' = cleanIdx + 1
       ELSE pc' = "ga_access" /\ cleanIdx' = 1
  /\ UNCHANGED <<files, ensureLog, calls, descriptor, blocks, onDisk, runVars,
                 scen, sgn, conn, signers, fundVars, keyVars, chainVars>>

(***************************************************************************)
(* generateAllWallets: the loop over the scenarios.                        *)
(***************************************************************************)
\* The opposite gate, which would run a generator when the file is present;
\* C2 has to tell it from AccessSkips.
AccessSkipsAbsent(s) == s \notin files

\* fs.access(configPath) resolves: the scenario is skipped.
AccessSkips(s) == s \in files

\* The loop moves on to the next scenario, or generateAllWallets returns.
NextScenario ==
  IF scen < Len(Scenarios)
    THEN pc' = "ga_access" /\ scen' = scen + 1
    ELSE pc' = "main_done" /\ scen' = scen

\* One turn of the loop up to its first await of an RPC: the file check, and
\* either the skip or the entry into the scenario's generator.
GaAccess ==
  /\ pc = "ga_access"
  /\ LET s == Scenarios[scen] IN
     IF AccessSkips(s)
       THEN /\ visited' = Append(visited, [name |-> s, present |-> s \in files,
                                           ran |-> FALSE])
            /\ NextScenario
            /\ UNCHANGED <<sgn, signers>>
       ELSE /\ visited' = Append(visited, [name |-> s, present |-> s \in files,
                                           ran |-> TRUE])
            /\ pc' = "sg_list"
            /\ sgn' = 0
            /\ signers' = <<>>
            /\ scen' = scen
  /\ addrs' = 0 /\ pays' = <<>> /\ lp' = NoLp /\ msCalls' = <<>>
  /\ fixture' = NoFixture
  /\ UNCHANGED <<run, exitCode, filesAtStart, endLoaded, cleanIdx, conn, faults,
                 files, lastRpc, ensureLog, calls, descriptor, nodeVars,
                 fundVars, keyVars, keyless>>

(***************************************************************************)
(* The ensure-wallet step of createSignerWallets and createWatcherWallet.  *)
(***************************************************************************)
\* A loop of generateAllWallets that would catch the error of an ensure step
\* and go round again; C32 has to tell it from EnsureOnError.
EnsureCarriesOn == "ga_access"

\* An error of the step is logged and rethrown; nothing up to main catches it.
EnsureOnError == "main_catch"

\* A test for another error code than the node's 'not found'; C4 has to tell
\* it from IsMissingCode.
IsOtherCode(err) == err = "other"

\* loadError.code === -18
IsMissingCode(err) == err = "notfound"

\* listwallets, then loadedWallets.includes(walletName).
EnsureList(here, load, done, w) ==
  /\ pc = here
  /\ \E err \in Answers("") :
       /\ Charge(err)
       /\ Issue(here, "listwallets", NoWallet, err)
       /\ pc' = IF err # "" THEN EnsureOnError
                ELSE IF w \in loaded THEN done ELSE load
       /\ conn' = IF err = "" /\ w \in loaded THEN w ELSE conn
  /\ ensureLog' = <<"listwallets">>
  /\ UNCHANGED <<files, calls, descriptor, nodeVars, runVars, scen, cleanIdx,
                 sgn, signers, fundVars, keyVars, chainVars>>

\* loadwallet; code -18 leads to createwallet, any other error is rethrown.
EnsureLoad(here, create, done, w) ==
  /\ pc = here
  /\ \E err \in Answers(LoadErr(w)) :
       /\ Charge(err)
       /\ Issue(here, "loadwallet", w, err)
       /\ loaded' = IF err = "" THEN loaded \cup {w} ELSE loaded
       /\ pc' = IF err = "" THEN done
                ELSE IF IsMissingCode(err) THEN create ELSE EnsureOnError
       /\ conn' = IF err = "" THEN w ELSE conn
  /\ ensureLog' = Append(ensureLog, "loadwallet")
  /\ UNCHANGED <<files, calls, descriptor, blocks, onDisk, runVars, scen,
                 cleanIdx, sgn, signers, fundVars, keyVars, chainVars>>

\* A createwallet that asks for a legacy wallet; C21 has to tell it from
\* CreateArgs.
CreateLegacyArgs(disablePrivateKeys) == <<disablePrivateKeys, FALSE, "", FALSE, FALSE>>

\* The arguments of createwallet after the name: disable_private_keys, blank,
\* passphrase, avoid_reuse, descriptors.
CreateArgs(disablePrivateKeys) == <<disablePrivateKeys, FALSE, "", FALSE, TRUE>>

\* createwallet name, disable_private_keys, false, '', false, true.
EnsureCreate(here, done, w, disablePrivateKeys) ==
  /\ pc = here
  /\ \E err \in Answers(CreateErr(w)) :
       /\ Charge(err)
       /\ lastRpc' = [site |-> here, method |-> "createwallet", target |-> w,
                      err |-> err, args |-> CreateArgs(disablePrivateKeys)]
       /\ IF err = ""
            THEN /\ onDisk' = onDisk \cup {w} /\ loaded' = loaded \cup {w}
                 /\ keyless' = IF disablePrivateKeys THEN keyless \cup {w}
                                ELSE keyless
            ELSE UNCHANGED <<onDisk, loaded, keyless>>
       /\ pc' = IF err = "" THEN done ELSE EnsureOnError
       /\ conn' = IF err = "" THEN w ELSE conn
  /\ ensureLog' = Append(ensureLog, "createwallet")
  /\ UNCHANGED <<files, calls, descriptor, blocks, runVars, scen, cleanIdx,
                 sgn, signers, fundVars, keyVars, stepVars, fixture>>

\* walletName of createSignerWallets' iteration i = sgn.
CurrentSigner == SignerName(Scenarios[scen], sgn + 1)

CurrentWatcher == WatcherName(Scenarios[scen])

SgList == EnsureList("sg_list", "sg_load", "fw_balance", CurrentSigner)

SgLoad == EnsureLoad("sg_load", "sg_create", "fw_balance", CurrentSigner)

\* createwallet's second argument for a signer wallet.
SignerDisablePrivateKeys == FALSE

\* A watcher created like a signer, with private keys; C17 has to tell it
\* from WatcherDisablePrivateKeys.
WatcherWithPrivateKeys == FALSE

\* createwallet's second argument for a watcher wallet.
WatcherDisablePrivateKeys == TRUE

SgCreate ==
  EnsureCreate("sg_create", "fw_balance", CurrentSigner, SignerDisablePrivateKeys)

WtList == EnsureList("wt_list", "wt_load", "wt_import", CurrentWatcher)

WtLoad == EnsureLoad("wt_load", "wt_create", "wt_import", CurrentWatcher)

WtCreate ==
  EnsureCreate("wt_create", "wt_import", CurrentWatcher, WatcherDisablePrivateKeys)

(***************************************************************************)
(* The node's ledger as fundWallet sees it.                                *)
(***************************************************************************)
\* The ledgers fundWallet may find when it first reads the wallet's balance.
LedgerInits ==
  {[NoLedger EXCEPT !.bal["wallet"] = w] :
     w \in {0, COIN \div 2, ((FallbackBTC + ShortCircuitBTC) \div 2) * COIN,
            ShortCircuitBTC * COIN, (ShortCircuitBTC + 1) * COIN}}

\* The amounts of the wallet's earlier coinbase that may mature while blocks
\* are generated.
Maturing == {0, BlockRewardBTC * COIN}

\* The balances the 'miner' wallet may have when fundWallet first reads it.
MinerBalances == {0, MinerMarginBTC * COIN, BlockRewardBTC * COIN}

\* generatetoaddress n to an address of party `to`: unconfirmed payments
\* confirm, `matured` of the wallet's earlier coinbase has become spendable,
\* and the n new coinbase outputs are immature.
MineLedger(L, n, to, matured) ==
  [bal      |-> [p \in Parties |->
                   L.bal[p] + L.pending[p] + (IF p = "wallet" THEN matured ELSE 0)],
   immature |-> [p \in Parties |->
                   L.immature[p] + (IF p = to THEN n * BlockRewardBTC * COIN ELSE 0)],
   pending  |-> [p \in Parties |-> 0]]

\* sendtoaddress needs the amount and the fee in the sender's balance.
SendErr(L, from, amt) == IF L.bal[from] >= amt + Fee THEN "" ELSE "funds"

\* sendtoaddress amt from party `from` to an address of party `to`: the sender
\* pays amount and fee; a payment to another wallet is unconfirmed there.
SendLedger(L, from, to, amt) ==
  [L EXCEPT !.bal[from] = @ - amt - Fee + (IF to = from THEN amt ELSE 0),
            !.pending[to] = @ + (IF to = from THEN 0 ELSE amt)]

(***************************************************************************)
(* fundWallet.                                                             *)
(***************************************************************************)
\* An error outside fundWallet's try leaves fundWallet, createSignerWallets
\* and the generator, and reaches main's catch.
FwOnError == "main_catch"

\* A fundWallet without the catch around the miner transfer; C5 has to tell
\* it from FwOnMinerPathError.
FwMinerPathRaises == "main_catch"

\* fundWallet's catch around the miner transfer: log, go on to the final
\* balance check.
FwOnMinerPathError == "fw_final"

\* fundWallet returned to createSignerWallets, which awaits extractWalletKeys.
FwReturn == "sg_extract"

\* A transfer that would spend from the target wallet itself; C6 has to tell
\* it from FwTransfer.
FwTransferFromTarget == [from |-> "wallet", amount |-> COIN \div 10]

\* minerClient.command('sendtoaddress', address, 5): the sender and the amount
\* of the fallback transfer.
FwTransfer == [from |-> "miner", amount |-> TransferBTC * COIN]

\* The wallet client of party p.
PartyWallet(p) == IF p = "miner" THEN Miner ELSE conn

\* const currentBalance = await wallet.command('getbalance'); > 5 returns.
FwBalance ==
  /\ pc = "fw_balance"
  /\ \E err \in Answers(WalletErr(conn)) :
       /\ Charge(err)
       /\ Issue("fw_balance", "getbalance", conn, err)
       /\ IF err # ""
            THEN /\ pc' = FwOnError
                 /\ fw' = [fw EXCEPT !.reads = @ + 1]
                 /\ UNCHANGED ledger
            ELSE \E L \in LedgerInits :
                   /\ ledger' = L
                   /\ fw' = [NoFw EXCEPT !.cur = L.bal["wallet"],
                                         !.reads = fw.reads + 1]
                   /\ pc' = IF L.bal["wallet"] > ShortCircuitBTC * COIN
                              THEN FwReturn ELSE "fw_newaddr"
  /\ UNCHANGED <<files, ensureLog, calls, descriptor, nodeVars, runVars,
                 loopVars, keyVars, chainVars>>

\* await this.sleep(2000) between the mining and the second getbalance.
FwSettleDelays == 1

\* const address = await wallet.command('getnewaddress')
FwNewAddr ==
  /\ pc = "fw_newaddr"
  /\ \E err \in Answers(WalletErr(conn)) :
       /\ Charge(err)
       /\ Issue("fw_newaddr", "getnewaddress", conn, err)
       /\ pc' = IF err = "" THEN "fw_mine" ELSE FwOnError
  /\ UNCHANGED <<files, ensureLog, calls, descriptor, nodeVars, runVars,
                 loopVars, fundVars, keyVars, chainVars>>

\* await this.baseClient.command('generatetoaddress', 50, address)
FwMine ==
  /\ pc = "fw_mine"
  /\ \E err \in Answers("") :
       /\ Charge(err)
       /\ Issue("fw_mine", "generatetoaddress", conn, err)
       /\ IF err = ""
            THEN /\ \E matured \in Maturing :
                      ledger' = MineLedger(ledger, FundBlocks, "wallet", matured)
                 /\ blocks' = Mined(FundBlocks)
                 /\ pc' = "fw_balance2"
            ELSE /\ UNCHANGED <<ledger, blocks>>
                 /\ pc' = FwOnError
  /\ UNCHANGED <<files, ensureLog, calls, descriptor, onDisk, loaded, runVars,
                 loopVars, fw, keyVars, chainVars>>

\* sleep(2000); const balanceAfterMining = await wallet.command('getbalance')
FwBalance2 ==
  /\ pc = "fw_balance2"
  /\ \E err \in Answers(WalletErr(conn)) :
       /\ Charge(err)
       /\ Issue("fw_balance2", "getbalance", conn, err)
       /\ IF err # ""
            THEN /\ pc' = FwOnError
                 /\ fw' = [fw EXCEPT !.reads = @ + 1,
                                     !.delays = @ + FwSettleDelays]
            ELSE /\ fw' = [fw EXCEPT !.after = ledger.bal["wallet"],
                                     !.reads = @ + 1,
                                     !.delays = @ + FwSettleDelays]
                 /\ pc' = IF ledger.bal["wallet"] < FallbackBTC * COIN
                            THEN "fw_em_list" ELSE "fw_final"
  /\ UNCHANGED <<files, ensureLog, calls, descriptor, nodeVars, runVars,
                 loopVars, ledger, keyVars, chainVars>>

\* ensureMinerWallet as called inside fundWallet's try.
FwEmList == EmList("fw_em_list", "fw_em_create", "fw_miner_balance")

FwEmCreate == EmCreate("fw_em_create", "fw_em_load", "fw_miner_balance")

FwEmLoad == EmLoad("fw_em_load", "fw_miner_balance", FwOnMinerPathError)

\* const minerBalance = await minerClient.command('getbalance'); > 10 sends.
\* A fallback that transfers whatever the miner holds; C24 has to tell it
\* from FwMinerCanPay.
FwMinerAlwaysPays(m) == TRUE

\* if (minerBalance > 10)
FwMinerCanPay(m) == m > MinerMarginBTC * COIN

FwMinerBalance ==
  /\ pc = "fw_miner_balance"
  /\ \E err \in Answers(WalletErr(Miner)) :
       /\ Charge(err)
       /\ Issue("fw_miner_balance", "getbalance", Miner, err)
       /\ IF err # ""
            THEN pc' = FwOnMinerPathError /\ UNCHANGED fundVars
            ELSE \E m \in MinerBalances :
                   /\ ledger' = [ledger EXCEPT !.bal["miner"] = m]
                   /\ fw' = [fw EXCEPT !.miner = m]
                   /\ pc' = IF FwMinerCanPay(m) THEN "fw_send" ELSE "fw_final"
  /\ UNCHANGED <<files, ensureLog, calls, descriptor, nodeVars, runVars,
                 loopVars, keyVars, chainVars>>

\* await minerClient.command('sendtoaddress', address, 5)
FwSend ==
  /\ pc = "fw_send"
  /\ LET t == FwTransfer
         natural == IF WalletErr(PartyWallet(t.from)) # ""
                      THEN WalletErr(PartyWallet(t.from))
                      ELSE SendErr(ledger, t.from, t.amount)
     IN \E err \in Answers(natural) :
          /\ Charge(err)
          /\ Issue("fw_send", "sendtoaddress", PartyWallet(t.from), err)
          /\ IF err = ""
               THEN /\ ledger' = SendLedger(ledger, t.from, "wallet", t.amount)
                    /\ pc' = "fw_confirm"
               ELSE /\ UNCHANGED ledger
                    /\ pc' = FwOnMinerPathError
  /\ UNCHANGED <<files, ensureLog, calls, descriptor, nodeVars, runVars,
                 loopVars, fw, keyVars, chainVars>>

\* await this.baseClient.command('generatetoaddress', 1, address)
FwConfirm ==
  /\ pc = "fw_confirm"
  /\ \E err \in Answers("") :
       /\ Charge(err)
       /\ Issue("fw_confirm", "generatetoaddress", conn, err)
       /\ IF err = ""
            THEN /\ \E matured \in Maturing :
                      ledger' = MineLedger(ledger, ConfirmBlocks, "wallet", matured)
                 /\ blocks' = Mined(ConfirmBlocks)
                 /\ pc' = "fw_final"
            ELSE /\ UNCHANGED <<ledger, blocks>>
                 /\ pc' = FwOnMinerPathError
  /\ UNCHANGED <<files, ensureLog, calls, descriptor, onDisk, loaded, runVars,
                 loopVars, fw, keyVars, chainVars>>

\* if (finalBalance < 1): the warning 'insufficient balance, but continuing'.
FwWarns(final) == final < FallbackBTC * COIN

\* const finalBalance = await wallet.command('getbalance'); below 1 it only
\* warns.  fundWallet returns.
FwFinal ==
  /\ pc = "fw_final"
  /\ \E err \in Answers(WalletErr(conn)) :
       /\ Charge(err)
       /\ Issue("fw_final", "getbalance", conn, err)
       /\ IF err # ""
            THEN pc' = FwOnError /\ fw' = [fw EXCEPT !.reads = @ + 1]
            ELSE /\ fw' = [fw EXCEPT !.final = ledger.bal["wallet"],
                                     !.reads = @ + 1]
                 /\ pc' = FwReturn
  /\ UNCHANGED <<files, ensureLog, calls, descriptor, nodeVars, runVars,
                 loopVars, ledger, keyVars, chainVars>>

(***************************************************************************)
(* fundWallet of the older variant of the generator: it mines to the       *)
(* wallet, then polls the balance.                                         *)
(***************************************************************************)
\* for (let i = 0; i < 15; i++)
PollLimit == 15

\* if (balance > 10) return
PollEnoughBTC == 10

\* A loop that never gives up; C20 has to tell it from PfContinue.
PfForever(i) == TRUE

\* The loop goes on after check number i + 1 fell short.
PfContinue(i) == i + 1 < PollLimit

\* const address = await wallet.command('getnewaddress')
PfNewAddr ==
  /\ pc = "pf_newaddr"
  /\ \E err \in Answers(WalletErr(conn)) :
       /\ Charge(err)
       /\ Issue("pf_newaddr", "getnewaddress", conn, err)
       /\ pc' = IF err = "" THEN "pf_mine" ELSE FwOnError
  /\ UNCHANGED <<files, ensureLog, calls, descriptor, nodeVars, runVars,
                 loopVars, fundVars, keyVars, chainVars>>

\* await this.baseClient.command('generatetoaddress', 50, address)
PfMine ==
  /\ pc = "pf_mine"
  /\ \E err \in Answers("") :
       /\ Charge(err)
       /\ Issue("pf_mine", "generatetoaddress", conn, err)
       /\ IF err = ""
            THEN /\ \E L \in LedgerInits, matured \in Maturing :
                      ledger' = MineLedger(L, FundBlocks, "wallet", matured)
                 /\ blocks' = Mined(FundBlocks)
                 /\ pc' = "pf_poll"
            ELSE /\ UNCHANGED <<ledger, blocks>>
                 /\ pc' = FwOnError
  /\ UNCHANGED <<files, ensureLog, calls, descriptor, onDisk, loaded, runVars,
                 loopVars, fw, keyVars, chainVars>>

\* One turn of the loop: getbalance, return when it exceeds 10, else
\* sleep(1000) and the next turn, or the rescan after the last one.
PfPoll ==
  /\ pc = "pf_poll"
  /\ fw.reads < MaxPolls
  /\ \E err \in Answers(WalletErr(conn)) :
       /\ Charge(err)
       /\ Issue("pf_poll", "getbalance", conn, err)
       /\ IF err # ""
            THEN /\ pc' = FwOnError
                 /\ fw' = [fw EXCEPT !.reads = @ + 1]
            ELSE IF ledger.bal["wallet"] > PollEnoughBTC * COIN
              THEN /\ pc' = FwReturn
                   /\ fw' = [fw EXCEPT !.reads = @ + 1,
                                       !.final = ledger.bal["wallet"]]
              ELSE /\ pc' = IF PfContinue(fw.i) THEN "pf_poll" ELSE "pf_rescan"
                   /\ fw' = [fw EXCEPT !.reads = @ + 1, !.delays = @ + 1,
                                       !.i = @ + 1]
  /\ UNCHANGED <<files, ensureLog, calls, descriptor, nodeVars, runVars,
                 loopVars, ledger, keyVars, chainVars>>

\* try { rescanblockchain; sleep(2000) } catch { log }
PfRescan ==
  /\ pc = "pf_rescan"
  /\ \E err \in Answers(WalletErr(conn)) :
       /\ Charge(err)
       /\ Issue("pf_rescan", "rescanblockchain", conn, err)
       /\ fw' = IF err = "" THEN [fw EXCEPT !.delays = @ + 1] ELSE fw
  /\ pc' = "pf_final"
  /\ UNCHANGED <<files, ensureLog, calls, descriptor, nodeVars, runVars,
                 loopVars, ledger, keyVars, chainVars>>

\* const finalBalance = await wallet.command('getbalance')
PfFinal ==
  /\ pc = "pf_final"
  /\ \E err \in Answers(WalletErr(conn)) :
       /\ Charge(err)
       /\ Issue("pf_final", "getbalance", conn, err)
       /\ IF err # ""
            THEN pc' = FwOnError /\ fw' = [fw EXCEPT !.reads = @ + 1]
            ELSE /\ fw' = [fw EXCEPT !.final = ledger.bal["wallet"],
                                     !.reads = @ + 1]
                 /\ pc' = FwReturn
  /\ UNCHANGED <<files, ensureLog, calls, descriptor, nodeVars, runVars,
                 loopVars, ledger, keyVars, chainVars>>

(***************************************************************************)
(* extractWalletKeys.  Strings that are compared or sorted (xpub, xfp) are *)
(* sequences of character codes.                                           *)
(***************************************************************************)
\* Math.random() is drawn from MaxRand values.
RandomDraws == 1..MaxRand

\* The xpubs the node reports.
NodeKeys == {<<1>>, <<1, 2>>, <<2>>}

\* The 8 hex digits of the fingerprint the node reports.
NodeXfp == <<13, 3, 4, 13, 11, 3, 3, 15>>

\* 'tpub661MyMwAqRbcF', the head of the fallback xpub.
FallbackPrefix == <<3>>

\* One entry of listdescriptors: script(<[xfp/path]>key/<chain>/*).
Desc(script, chain, origin, key) ==
  [script |-> script, chain |-> chain, origin |-> origin, xfp |-> NodeXfp,
   path |-> "84'/1'/0'", key |-> key]

\* What listdescriptors may answer for a wallet: an error (a wallet without
\* descriptors), no descriptor, no descriptor that matches, a matching
\* descriptor without key origin, or a change descriptor followed by a
\* receiving one with key origin.
DescAnswers ==
  {[err |-> "other", descs |-> <<>>],
   [err |-> "", descs |-> <<>>],
   [err |-> "", descs |-> <<Desc("tr", 0, TRUE, <<1>>)>>],
   [err |-> "", descs |-> <<Desc("pkh", 0, FALSE, <<1>>)>>]}
  \cup {[err |-> "", descs |-> <<Desc("pkh", 1, TRUE, k), Desc("wpkh", 0, TRUE, k)>>] :
          k \in NodeKeys}

\* d.desc.includes('pkh') && d.desc.includes('/0/*')
IsReceivingPkh(d) == d.script \in {"pkh", "wpkh", "sh(wpkh"} /\ d.chain = 0

\* desc.desc.match(/\[([a-fA-F0-9]{8})\/([^\]]+)\]([xtpub][a-zA-Z0-9]+)/)
RegexMatches(d) == d.origin

RECURSIVE Digits(_)
\* n.toString() for n >= 0: the decimal digits.
Digits(n) == IF n < 10 THEN <<n>> ELSE Digits(n \div 10) \o <<n % 10>>

\* s.padStart(n, c)
PadStart(s, n, c) ==
  IF Len(s) >= n THEN s ELSE [i \in 1..(n - Len(s)) |-> c] \o s

\* The fallback values of extractWalletKeys for signer index and random draw r.
FallbackKeys(index, r) ==
  [xfp |-> PadStart(Digits(index + 1), 4, 0) \o PadStart(Digits(index + 1), 4, 0),
   xpub |-> FallbackPrefix \o <<r>>,
   bip32Path |-> "m/84'/1'/0'"]

\* extractWalletKeys takes the fallback path on this answer of listdescriptors.
UsesFallback(answer) ==
  LET hit == {i \in 1..Len(answer.descs) : IsReceivingPkh(answer.descs[i])}
  IN  \/ answer.err # ""
      \/ hit = {}
      \/ ~RegexMatches(answer.descs[CHOOSE i \in hit : \A j \in hit : i <= j])

\* extractWalletKeys(wallet, index), given the answer of listdescriptors and
\* the value Math.random() returns.
ExtractWalletKeys(index, answer, r) ==
  LET hit == {i \in 1..Len(answer.descs) : IsReceivingPkh(answer.descs[i])}
      d   == answer.descs[CHOOSE i \in hit : \A j \in hit : i <= j]
  IN  IF answer.err = "" /\ hit # {} /\ RegexMatches(d)
        THEN [xfp |-> d.xfp, xpub |-> d.key, bip32Path |-> "m/" \o d.path]
        ELSE FallbackKeys(index, r)

(***************************************************************************)
(* importMultisigDescriptor.                                               *)
(***************************************************************************)
\* a < b for strings, as Array.prototype.sort compares them: by code units,
\* a proper prefix first.
LexLess(a, b) ==
  \E k \in 1..(Min(Len(a), Len(b)) + 1) :
    /\ \A j \in 1..(k - 1) : a[j] = b[j]
    /\ \/ k > Len(a) /\ k <= Len(b)
       \/ k <= Len(a) /\ k <= Len(b) /\ a[k] < b[k]

RECURSIVE InsertSorted(_, _)
InsertSorted(x, sorted) ==
  IF sorted = <<>> THEN <<x>>
  ELSE IF LexLess(x, Head(sorted)) THEN <<x>> \o sorted
  ELSE <<Head(sorted)>> \o InsertSorted(x, Tail(sorted))

RECURSIVE SortFrom(_, _)
SortFrom(xs, sorted) ==
  IF xs = <<>> THEN sorted ELSE SortFrom(Tail(xs), InsertSorted(Head(xs), sorted))

\* The xpubs in the order of the signers array, without the sort; C8 has to
\* tell it from SortedXpubs.
UnsortedXpubs(sgs) == [i \in 1..Len(sgs) |-> sgs[i].xpub]

\* signers.map(s => s.xpub).sort()
SortedXpubs(sgs) == SortFrom([i \in 1..Len(sgs) |-> sgs[i].xpub], <<>>)

\* A descriptor built from the first signer's xpub only; C34 has to tell it
\* from MultisigDescriptor.
FirstKeyDescriptor(sgs) ==
  [script |-> "wsh(sortedmulti", required |-> 2,
   keys |-> [i \in 1..Len(sgs) |-> sgs[1].xpub], suffix |-> "/0/*"]

\* `wsh(sortedmulti(2,${sortedXpubs.map(xpub => `${xpub}/0/*`).join(',')}))`
MultisigDescriptor(sgs) ==
  [script |-> "wsh(sortedmulti", required |-> 2, keys |-> SortedXpubs(sgs),
   suffix |-> "/0/*"]

(***************************************************************************)
(* createSignerWallets after fundWallet, createMultisigAddress,            *)
(* createWatcherWallet, fundMultisigAddresses, the pattern generators and  *)
(* saveCaravanConfig.                                                      *)
(***************************************************************************)
\* A generator that logs an error of its chain and goes on to save the
\* fixture; C31 has to tell it from ChainOnError.
ChainCarriesOn == "sv_write"

\* An error in the generator outside a try reaches main's catch.
ChainOnError == "main_catch"

\* An extractWalletKeys whose listdescriptors is awaited outside the try; C11
\* has to tell it from ExtractOnError.
ExtractRaises == "main_catch"

\* extractWalletKeys' catch: the error of listdescriptors is logged and the
\* fallback values are returned.
ExtractOnError == "fallback"

\* extractWalletKeys, signers.push, and the next iteration of
\* createSignerWallets or its return.
SgExtract ==
  /\ pc = "sg_extract"
  /\ \E a \in DescAnswers, r \in RandomDraws :
       \E err \in Answers(IF WalletErr(conn) # "" THEN WalletErr(conn) ELSE a.err) :
         /\ Charge(err)
         /\ Issue("sg_extract", "listdescriptors", conn, err)
         /\ IF err # "" /\ ExtractOnError # "fallback"
              THEN /\ pc' = ExtractOnError
                   /\ UNCHANGED <<signers, sgn>>
              ELSE /\ LET k == ExtractWalletKeys(sgn, [a EXCEPT !.err = err], r)
                      IN  signers' = Append(signers,
                                            [wallet |-> conn, name |-> conn,
                                             xpub |-> k.xpub, xfp |-> k.xfp,
                                             bip32Path |-> k.bip32Path])
                   /\ IF sgn + 1 < NumSigners
                        THEN pc' = "sg_list" /\ sgn' = sgn + 1
                        ELSE pc' = "ms_addresses" /\ sgn' = sgn
  /\ ledger' = NoLedger
  /\ fw' = NoFw
  /\ UNCHANGED <<files, ensureLog, calls, descriptor, nodeVars, runVars, scen,
                 cleanIdx, conn, keyVars, chainVars>>

\* createMultisigAddress: getnewaddress and getaddressinfo on each signer
\* wallet and createmultisig, 4 times.  None of them changes the wallet set,
\* the chain or the files; an error of any of them leaves the generator.
MsAddresses ==
  /\ pc = "ms_addresses"
  /\ \E err \in Answers(WalletErr(signers[1].wallet)) :
       /\ Charge(err)
       /\ Issue("ms_addresses", "createmultisig", signers[1].wallet, err)
       /\ pc' = IF err = "" THEN "wt_list" ELSE ChainOnError
  /\ UNCHANGED <<files, ensureLog, calls, descriptor, nodeVars, runVars,
                 loopVars, fundVars, keyVars, chainVars>>

\* The descriptor d as submitted to the watcher, and whether the node took it.
Submitted(d, ok) ==
  [script |-> d.script, required |-> d.required, keys |-> d.keys,
   suffix |-> d.suffix, imported |-> ok]

\* An importMultisigDescriptor without its catch; C26 has to tell it from
\* ImportOnError.
ImportRaises == "main_catch"

\* The catch of importMultisigDescriptor logs the error; createWatcherWallet
\* returns the watcher and createMultisigWallet goes on.
ImportOnError == "fm_fund"

\* importMultisigDescriptor: importdescriptors on the watcher; an error is
\* logged and dropped.  createWatcherWallet returns.
WtImport ==
  /\ pc = "wt_import"
  /\ \E err \in Answers(WalletErr(conn)) :
       /\ Charge(err)
       /\ Issue("wt_import", "importdescriptors", conn, err)
       /\ descriptor' = Submitted(MultisigDescriptor(signers), err = "")
       /\ pc' = IF err = "" THEN "fm_fund" ELSE ImportOnError
  /\ UNCHANGED <<files, ensureLog, calls, nodeVars, runVars, loopVars,
                 fundVars, keyVars, chainVars>>

\* fundMultisigAddresses from signers[0].wallet: with a balance below 0.1 it
\* returns after getbalance; else it sends to the addresses and generates 6
\* blocks.  An error outside its try leaves the generator.
FmFund ==
  /\ pc = "fm_fund"
  /\ \E err \in Answers(WalletErr(signers[1].wallet)), funded \in BOOLEAN :
       /\ Charge(err)
       /\ Issue("fm_fund", IF funded THEN "generatetoaddress" ELSE "getbalance",
                signers[1].wallet, err)
       /\ blocks' = IF err = "" /\ funded THEN Mined(MultisigBlocks) ELSE blocks
       /\ pc' = IF err = "" THEN "pt_pattern" ELSE ChainOnError
  /\ UNCHANGED <<files, ensureLog, calls, descriptor, onDisk, loaded, runVars,
                 loopVars, fundVars, keyVars, chainVars>>

\* The blocks a scenario's pattern generator mines at its end.
PatternBlocks(s) == IF s \in {"bad_privacy", "bad_waste"} THEN 3 ELSE 2

\* The scenario's pattern generator: payments from signers[0].wallet, then
\* generatetoaddress.  An error outside a try leaves the generator.
PtPattern ==
  /\ pc = "pt_pattern"
  /\ \E err \in Answers(WalletErr(signers[1].wallet)) :
       /\ Charge(err)
       /\ Issue("pt_pattern", "generatetoaddress", signers[1].wallet, err)
       /\ blocks' = IF err = "" THEN Mined(PatternBlocks(Scenarios[scen])) ELSE blocks
       /\ pc' = IF err = "" THEN "sv_write" ELSE ChainOnError
  /\ UNCHANGED <<files, ensureLog, calls, descriptor, onDisk, loaded, runVars,
                 loopVars, fundVars, keyVars, chainVars>>

\* quorum: { requiredSigners: 2, totalSigners: 2 }
RequiredSigners == 2
TotalSigners == 2

\* The document saveCaravanConfig builds for scenario s from signers sgs.
CaravanConfig(s, sgs) ==
  [name            |-> s,
   requiredSigners |-> RequiredSigners,
   totalSigners    |-> TotalSigners,
   keys            |-> [k \in 1..Len(sgs) |->
                         [name |-> sgs[k].name, xpub |-> sgs[k].xpub,
                          bip32Path |-> sgs[k].bip32Path, xfp |-> sgs[k].xfp]],
   walletName      |-> WatcherName(s)]

\* saveCaravanConfig writes tmp/<scenario>_caravan.json; the generator returns
\* (its locals are gone) and the loop of generateAllWallets goes on.
SvWrite ==
  /\ pc = "sv_write"
  /\ files' = files \cup {Scenarios[scen]}
  /\ fixture' = CaravanConfig(Scenarios[scen], signers)
  /\ NextScenario
  /\ sgn' = 0 /\ conn' = NoWallet /\ signers' = <<>>
  /\ descriptor' = NoDescriptor
  /\ ensureLog' = <<>>
  /\ addrs' = 0 /\ lp' = NoLp
  /\ UNCHANGED <<run, exitCode, filesAtStart, visited, endLoaded, cleanIdx,
                 faults, lastRpc, calls, nodeVars, fundVars, keyVars, keyless,
                 pays, msCalls>>

(***************************************************************************)
(* createMultisigAddress, one step per RPC.  An address is the number      *)
(* getnewaddress handed out; a public key is known by the wallet and the   *)
(* address it belongs to.                                                  *)
(***************************************************************************)
\* for (let i = 0; i < 4; i++)
MsAddressCount == 4

\* createmultisig's first argument.
MsThreshold == 2

\* An inner loop that asks only the first signer for a key; C18 has to tell it
\* from MsKeyHolders.
MsFirstHolder(sgs) == 1

\* for (const signer of signers): the signers that contribute a public key.
MsKeyHolders(sgs) == Len(sgs)

\* A key list declared outside the outer loop, so that it would keep the keys
\* of earlier iterations; C27 has to tell it from MsNextKeys.
MsKeepKeys(keys) == keys

\* const pubkeys = [] inside the outer loop: every iteration starts empty.
MsNextKeys(keys) == <<>>

\* createmultisig of n-of-keys: the node refuses fewer keys than n.
MultisigErr(n, keys) == IF Len(keys) < n THEN "other" ELSE ""

\* const address = await signer.wallet.command('getnewaddress')
MsNewAddr ==
  /\ pc = "ms_addresses"
  /\ LET w == signers[lp.j + 1].wallet IN
     \E err \in Answers(WalletErr(w)) :
       /\ Charge(err)
       /\ Issue("ms_addresses", "getnewaddress", w, err)
       /\ IF err = ""
            THEN /\ addrs' = addrs + 1
                 /\ lp' = [lp EXCEPT !.addr = addrs + 1]
                 /\ pc' = "ms_info"
            ELSE /\ UNCHANGED <<addrs, lp>>
                 /\ pc' = ChainOnError
  /\ UNCHANGED <<files, ensureLog, calls, descriptor, nodeVars, runVars,
                 loopVars, fundVars, keyVars, pays, msCalls, fixture, keyless>>

\* const info = await signer.wallet.command('getaddressinfo', address);
\* pubkeys.push(info.pubkey)
MsInfo ==
  /\ pc = "ms_info"
  /\ LET w == signers[lp.j + 1].wallet IN
     \E err \in Answers(WalletErr(w)) :
       /\ Charge(err)
       /\ Issue("ms_info", "getaddressinfo", w, err)
       /\ IF err = ""
            THEN /\ lp' = [lp EXCEPT
                            !.keys = Append(@, [owner |-> w, addr |-> lp.addr]),
                            !.j = IF lp.j + 1 < MsKeyHolders(signers)
                                    THEN lp.j + 1 ELSE 0]
                 /\ pc' = IF lp.j + 1 < MsKeyHolders(signers)
                            THEN "ms_addresses" ELSE "ms_create"
            ELSE /\ UNCHANGED lp
                 /\ pc' = ChainOnError
  /\ UNCHANGED <<files, ensureLog, calls, descriptor, nodeVars, runVars,
                 loopVars, fundVars, keyVars, addrs, pays, msCalls, fixture,
                 keyless>>

\* await signers[0].wallet.command('createmultisig', 2, pubkeys);
\* addresses.push(multisigResult.address).  After the 4th address
\* createMultisigAddress returns and createWatcherWallet starts.
MsCreate ==
  /\ pc = "ms_create"
  /\ LET w == signers[1].wallet
         natural == IF WalletErr(w) # "" THEN WalletErr(w)
                    ELSE MultisigErr(MsThreshold, lp.keys)
     IN \E err \in Answers(natural) :
          /\ Charge(err)
          /\ Issue("ms_create", "createmultisig", w, err)
          /\ msCalls' = Append(msCalls, [threshold |-> MsThreshold,
                                         keys |-> lp.keys, ok |-> err = ""])
          /\ IF err # ""
               THEN /\ UNCHANGED <<lp, addrs>>
                    /\ pc' = ChainOnError
               ELSE IF lp.i + 1 < MsAddressCount
                 THEN /\ lp' = [lp EXCEPT !.i = lp.i + 1, !.j = 0, !.addr = 0,
                                          !.keys = MsNextKeys(lp.keys)]
                      /\ UNCHANGED addrs
                      /\ pc' = "ms_addresses"
                 ELSE /\ lp' = NoLp
                      /\ addrs' = 0
                      /\ pc' = "wt_list"
  /\ UNCHANGED <<files, ensureLog, calls, descriptor, nodeVars, runVars,
                 loopVars, fundVars, keyVars, pays, fixture, keyless>>

(***************************************************************************)
(* fundMultisigAddresses(addresses, signers[0].wallet), one step per RPC.  *)
(* The coordinator's balance is ledger.bal["wallet"].                      *)
(***************************************************************************)
\* if (balance < 0.1) return
FmSkipBelow == COIN \div 10

\* if (balance < 8): the reduced amounts; else 2.0 per address.
FmFullFrom == 8 * COIN

\* sendtoaddress(address, 2.0)
FmFullAmount == 2 * COIN

\* Math.max(0.05, (balance - 0.2) / addresses.length), then
\* Math.floor(amountPerAddress * 100) / 100
FmReducedAmount(balance, n) ==
  Max(COIN \div 20, (balance - COIN \div 5) \div n)

\* if (amountPerAddress > 0.02)
FmWorthSending(amount) == amount > COIN \div 50

\* The catch around the reduced tier's sendtoaddress: log and break.
FmReducedOnError == "fm_newaddr"

\* The full tier's sendtoaddress is awaited outside any try.
FmFullOnError == "main_catch"

\* fundMultisigAddresses returned, createMultisigWallet returns the signers
\* and the generator calls its pattern.
FmReturn == "pt_pattern"

\* The k-th address createMultisigAddress returned.
MultisigAddress(k) == <<"multisig", k>>

\* An address getnewaddress of the coordinator returned.
OwnAddress(n) == <<"own", n>>

\* sendtoaddress to an address of no wallet of the ledger: the sender pays
\* amount and fee.
PayOut(L, from, amt) == [L EXCEPT !.bal[from] = @ - amt - Fee]

\* A generator that would spend from the wallet of its last signer; C33 has
\* to tell it from Coordinator.
LastSignerWallet == signers[Len(signers)].wallet

\* const coordinator = signers[0].wallet
Coordinator == signers[1].wallet

\* What the node answers to a send of amt from the coordinator.
CoordinatorSendErr(amt) ==
  IF WalletErr(Coordinator) # "" THEN WalletErr(Coordinator)
  ELSE SendErr(ledger, "wallet", amt)

\* const balance = await coordinatorWallet.command('getbalance')
FmBalance ==
  /\ pc = "fm_fund"
  /\ \E err \in Answers(WalletErr(Coordinator)) :
       /\ Charge(err)
       /\ Issue("fm_fund", "getbalance", Coordinator, err)
       /\ IF err # ""
            THEN pc' = ChainOnError /\ UNCHANGED lp
            ELSE /\ lp' = [NoLp EXCEPT !.bal = ledger.bal["wallet"],
                                       !.start = ledger.bal["wallet"]]
                 /\ pc' = IF ledger.bal["wallet"] < FmSkipBelow THEN FmReturn
                            ELSE IF ledger.bal["wallet"] < FmFullFrom
                              THEN "fm_send_reduced" ELSE "fm_send_full"
  /\ pays' = <<>>
  /\ addrs' = 0
  /\ UNCHANGED <<files, ensureLog, calls, descriptor, nodeVars, runVars,
                 loopVars, fundVars, keyVars, msCalls, fixture, keyless>>

\* The reduced tier: sendtoaddress(address, roundedAmount) in a try whose
\* catch breaks out of the loop.
FmSendReduced ==
  /\ pc = "fm_send_reduced"
  /\ LET amount == FmReducedAmount(lp.bal, MsAddressCount)
         last   == lp.i + 1 >= MsAddressCount
     IN IF ~FmWorthSending(amount)
          THEN /\ lp' = [lp EXCEPT !.i = lp.i + 1]
               /\ pc' = IF last THEN "fm_newaddr" ELSE "fm_send_reduced"
               /\ UNCHANGED <<faults, lastRpc, ledger, pays>>
          ELSE \E err \in Answers(CoordinatorSendErr(amount)) :
                 /\ Charge(err)
                 /\ Issue("fm_send_reduced", "sendtoaddress", Coordinator, err)
                 /\ pays' = Append(pays, [to |-> MultisigAddress(lp.i + 1),
                                          range |-> {amount}, ok |-> err = ""])
                 /\ IF err = ""
                      THEN /\ ledger' = PayOut(ledger, "wallet", amount)
                           /\ lp' = [lp EXCEPT !.i = lp.i + 1]
                           /\ pc' = IF last THEN "fm_newaddr"
                                      ELSE "fm_send_reduced"
                      ELSE /\ UNCHANGED <<ledger, lp>>
                           /\ pc' = FmReducedOnError
  /\ UNCHANGED <<files, ensureLog, calls, descriptor, nodeVars, runVars,
                 loopVars, fw, keyVars, addrs, msCalls, fixture, keyless>>

\* The full tier: sendtoaddress(address, 2.0) for each address.
FmSendFull ==
  /\ pc = "fm_send_full"
  /\ \E err \in Answers(CoordinatorSendErr(FmFullAmount)) :
       /\ Charge(err)
       /\ Issue("fm_send_full", "sendtoaddress", Coordinator, err)
       /\ pays' = Append(pays, [to |-> MultisigAddress(lp.i + 1),
                                range |-> {FmFullAmount}, ok |-> err = ""])
       /\ IF err = ""
            THEN /\ ledger' = PayOut(ledger, "wallet", FmFullAmount)
                 /\ lp' = [lp EXCEPT !.i = lp.i + 1]
                 /\ pc' = IF lp.i + 1 >= MsAddressCount THEN "fm_newaddr"
                            ELSE "fm_send_full"
            ELSE /\ UNCHANGED <<ledger, lp>>
                 /\ pc' = FmFullOnError
  /\ UNCHANGED <<files, ensureLog, calls, descriptor, nodeVars, runVars,
                 loopVars, fw, keyVars, addrs, msCalls, fixture, keyless>>

\* const minerAddress = await coordinatorWallet.command('getnewaddress')
FmNewAddr ==
  /\ pc = "fm_newaddr"
  /\ \E err \in Answers(WalletErr(Coordinator)) :
       /\ Charge(err)
       /\ Issue("fm_newaddr", "getnewaddress", Coordinator, err)
       /\ IF err = ""
            THEN /\ addrs' = addrs + 1
                 /\ lp' = [lp EXCEPT !.addr = addrs + 1]
                 /\ pc' = "fm_gen"
            ELSE /\ UNCHANGED <<addrs, lp>>
                 /\ pc' = ChainOnError
  /\ UNCHANGED <<files, ensureLog, calls, descriptor, nodeVars, runVars,
                 loopVars, fundVars, keyVars, pays, msCalls, fixture, keyless>>

\* await this.baseClient.command('generatetoaddress', 6, minerAddress)
FmGen ==
  /\ pc = "fm_gen"
  /\ \E err \in Answers("") :
       /\ Charge(err)
       /\ Issue("fm_gen", "generatetoaddress", Coordinator, err)
       /\ IF err = ""
            THEN /\ \E matured \in Maturing :
                      ledger' = MineLedger(ledger, MultisigBlocks, "wallet", matured)
                 /\ blocks' = Mined(MultisigBlocks)
                 /\ pc' = FmReturn
            ELSE /\ UNCHANGED <<ledger, blocks>>
                 /\ pc' = ChainOnError
  /\ UNCHANGED <<files, ensureLog, calls, descriptor, onDisk, loaded, runVars,
                 loopVars, fw, keyVars, stepVars, fixture, keyless>>

(***************************************************************************)
(* The four pattern generators, one step per RPC.  A generator is a        *)
(* sequence of payment loops; PatternPhases lists them as the code writes  *)
(* them.  kind "reused": one getnewaddress, then a send per amount to that *)
(* address; "fresh": getnewaddress and send per amount; "batch": n         *)
(* getnewaddress, then one sendmany of the drawn total.  try says whether  *)
(* the spend sits in a try whose catch leaves the loop.  pays logs every    *)
(* spend issued: its destination, the amounts the code may have asked for  *)
(* (one value unless the amount is random) and whether the node accepted.  *)
(***************************************************************************)
\* if (balance < 1): the minimal transactions.
PatternLowBelow == COIN

\* createGoodPrivacyPattern and createGoodWastePattern start with getbalance.
ReadsBalance(s) == s \in {"good_privacy", "good_waste"}

\* num/den BTC in units of the ledger, rounded down.
Btc(num, den) == (num * COIN) \div den

\* Number((Math.random() * width + base).toFixed(8)) lies in [lo/den, hi/den)
\* BTC: the least and the greatest value at the resolution of the ledger.
Drawn(lo, hi, den) == {Btc(lo, den), ((hi * COIN + den - 1) \div den) - 1}

Phase(kind, amounts, try) == [kind |-> kind, amounts |-> amounts, try |-> try]

Times(n, amounts) == [k \in 1..n |-> amounts]

\* The minimal transactions without the try around sendtoaddress; C13 has to
\* tell it from MinimalPhase.
MinimalUnguarded == Phase("fresh", Times(3, Drawn(1, 6, 100)), FALSE)

\* Math.random() * 0.05 + 0.01, three times
MinimalPhase == Phase("fresh", Times(3, Drawn(1, 6, 100)), TRUE)

PatternPhases(s, balance) ==
  CASE s = "bad_privacy" ->
         << Phase("reused", Times(8, {Btc(1, 2)}), FALSE),
            Phase("fresh", << {COIN}, {2 * COIN}, {5 * COIN} >>, FALSE) >>
    [] s = "bad_waste" ->
         << Phase("batch", Times(15, {Btc(15, 100000)}), FALSE),
            Phase("fresh", Times(5, {Btc(1, 1000)}), FALSE),
            Phase("fresh", Times(10, Drawn(1, 101, 1000)), FALSE) >>
    [] s = "good_privacy" ->
         IF balance < PatternLowBelow THEN << MinimalPhase >>
         ELSE << Phase("fresh", Times(8, Drawn(1, 11, 100)), TRUE) >>
    [] s = "good_waste" ->
         IF balance < PatternLowBelow THEN << MinimalPhase >>
         ELSE << Phase("fresh", Times(5, Drawn(2, 12, 100)), TRUE),
                 Phase("batch", Times(3, {3 * a : a \in Drawn(1, 6, 100)}), TRUE) >>

CurrentPhases == PatternPhases(Scenarios[scen], lp.bal)

\* A generator that pays every time to the first address it obtained; C14 has
\* to tell it from PayDestination.
GpReuses(kind, fresh, first) == first

\* The destination of a single payment: the address of the loop's own
\* getnewaddress, or the one obtained before a loop that reuses it.
PayDestination(kind, fresh, first) == IF kind = "reused" THEN first ELSE fresh

\* A generator that returns as soon as a payment loop is over, without its
\* confirmation block; C30 has to tell it from AfterPhase.
AfterPhaseReturns(j) == "sv_write"

\* Control after phase j ended (its loop ran out or its catch left it).
AfterPhase(j) == IF j < Len(CurrentPhases) THEN "pt_addr" ELSE "pt_mine_addr"

\* An error of a spend outside any try leaves the generator.
PatternOnError == "main_catch"

\* await this.createXPattern(signers) in the scenario's generator.
PtCall ==
  /\ pc = "pt_pattern"
  /\ pays' = <<>>
  /\ addrs' = 0
  /\ lp' = [NoLp EXCEPT !.start = ledger.bal["wallet"], !.j = 1]
  /\ pc' = IF ReadsBalance(Scenarios[scen]) THEN "pt_balance" ELSE "pt_addr"
  /\ UNCHANGED <<files, ensureLog, calls, descriptor, nodeVars, runVars,
                 loopVars, fundVars, keyVars, faults, lastRpc, msCalls,
                 fixture, keyless>>

\* const balance = await coordinator.command('getbalance')
PtBalance ==
  /\ pc = "pt_balance"
  /\ \E err \in Answers(WalletErr(Coordinator)) :
       /\ Charge(err)
       /\ Issue("pt_balance", "getbalance", Coordinator, err)
       /\ IF err = ""
            THEN lp' = [lp EXCEPT !.bal = ledger.bal["wallet"]] /\ pc' = "pt_addr"
            ELSE UNCHANGED lp /\ pc' = PatternOnError
  /\ UNCHANGED <<files, ensureLog, calls, descriptor, nodeVars, runVars,
                 loopVars, fundVars, keyVars, addrs, pays, msCalls, fixture,
                 keyless>>

\* await coordinator.command('getnewaddress') of a payment loop.
PtAddr ==
  /\ pc = "pt_addr"
  /\ LET ph == CurrentPhases[lp.j]
     IN \E err \in Answers(WalletErr(Coordinator)) :
          /\ Charge(err)
          /\ Issue("pt_addr", "getnewaddress", Coordinator, err)
          /\ IF err # ""
               THEN /\ pc' = PatternOnError
                    /\ UNCHANGED <<addrs, lp>>
               ELSE /\ addrs' = addrs + 1
                    /\ IF ph.kind = "batch"
                         THEN /\ lp' = [lp EXCEPT !.outs = Append(@, addrs + 1),
                                                  !.i = lp.i + 1]
                              /\ pc' = IF lp.i + 1 < Len(ph.amounts)
                                         THEN "pt_addr" ELSE "pt_batch"
                         ELSE /\ lp' = [lp EXCEPT
                                          !.addr = addrs + 1,
                                          !.first = IF lp.i = 0 THEN addrs + 1 ELSE @]
                              /\ pc' = "pt_send"
  /\ UNCHANGED <<files, ensureLog, calls, descriptor, nodeVars, runVars,
                 loopVars, fundVars, keyVars, pays, msCalls, fixture, keyless>>

\* await coordinator.command('sendtoaddress', address, amount)
PtSend ==
  /\ pc = "pt_send"
  /\ LET ph   == CurrentPhases[lp.j]
         dest == PayDestination(ph.kind, lp.addr, lp.first)
         last == lp.i + 1 >= Len(ph.amounts)
     IN \E amount \in ph.amounts[lp.i + 1] :
        \E err \in Answers(CoordinatorSendErr(amount)) :
          /\ Charge(err)
          /\ Issue("pt_send", "sendtoaddress", Coordinator, err)
          /\ pays' = Append(pays, [to |-> OwnAddress(dest),
                                   range |-> ph.amounts[lp.i + 1],
                                   ok |-> err = ""])
          /\ IF err = ""
               THEN /\ ledger' = SendLedger(ledger, "wallet", "wallet", amount)
                    /\ IF last
                         THEN /\ lp' = [lp EXCEPT !.i = 0, !.j = lp.j + 1]
                              /\ pc' = AfterPhase(lp.j)
                         ELSE /\ lp' = [lp EXCEPT !.i = lp.i + 1]
                              /\ pc' = IF ph.kind = "reused" THEN "pt_send"
                                         ELSE "pt_addr"
               ELSE /\ UNCHANGED ledger
                    /\ IF ph.try
                         THEN /\ lp' = [lp EXCEPT !.i = 0, !.j = lp.j + 1]
                              /\ pc' = AfterPhase(lp.j)
                         ELSE /\ UNCHANGED lp
                              /\ pc' = PatternOnError
  /\ UNCHANGED <<files, ensureLog, calls, descriptor, nodeVars, runVars,
                 loopVars, fw, keyVars, addrs, msCalls, fixture, keyless>>

\* await coordinator.command('sendmany', '', outputs)
PtBatch ==
  /\ pc = "pt_batch"
  /\ LET ph == CurrentPhases[lp.j]
     IN \E amount \in ph.amounts[1] :
        \E err \in Answers(CoordinatorSendErr(amount)) :
          /\ Charge(err)
          /\ Issue("pt_batch", "sendmany", Coordinator, err)
          /\ pays' = Append(pays, [to |-> lp.outs, range |-> ph.amounts[1],
                                   ok |-> err = ""])
          /\ ledger' = IF err = "" THEN SendLedger(ledger, "wallet", "wallet", amount)
                       ELSE ledger
          /\ IF err = "" \/ ph.try
               THEN /\ lp' = [lp EXCEPT !.i = 0, !.j = lp.j + 1, !.outs = <<>>]
                    /\ pc' = AfterPhase(lp.j)
               ELSE /\ UNCHANGED lp
                    /\ pc' = PatternOnError
  /\ UNCHANGED <<files, ensureLog, calls, descriptor, nodeVars, runVars,
                 loopVars, fw, keyVars, addrs, msCalls, fixture, keyless>>

\* const address = await coordinator.command('getnewaddress')
PtMineAddr ==
  /\ pc = "pt_mine_addr"
  /\ \E err \in Answers(WalletErr(Coordinator)) :
       /\ Charge(err)
       /\ Issue("pt_mine_addr", "getnewaddress", Coordinator, err)
       /\ IF err = ""
            THEN addrs' = addrs + 1 /\ lp' = [lp EXCEPT !.addr = addrs + 1]
                 /\ pc' = "pt_mine"
            ELSE UNCHANGED <<addrs, lp>> /\ pc' = PatternOnError
  /\ UNCHANGED <<files, ensureLog, calls, descriptor, nodeVars, runVars,
                 loopVars, fundVars, keyVars, pays, msCalls, fixture, keyless>>

\* await this.baseClient.command('generatetoaddress', n, address)
PtMine ==
  /\ pc = "pt_mine"
  /\ \E err \in Answers("") :
       /\ Charge(err)
       /\ Issue("pt_mine", "generatetoaddress", Coordinator, err)
       /\ IF err = ""
            THEN /\ \E matured \in Maturing :
                      ledger' = MineLedger(ledger, PatternBlocks(Scenarios[scen]),
                                           "wallet", matured)
                 /\ blocks' = Mined(PatternBlocks(Scenarios[scen]))
                 /\ pc' = "sv_write"
            ELSE /\ UNCHANGED <<ledger, blocks>>
                 /\ pc' = PatternOnError
  /\ UNCHANGED <<files, ensureLog, calls, descriptor, onDisk, loaded, runVars,
                 loopVars, fw, keyVars, stepVars, fixture, keyless>>

(***************************************************************************)
(* The run of the process.                                                 *)
(***************************************************************************)
Init ==
  /\ pc = "idle"
  /\ run = 0
  /\ exitCode = -1
  /\ faults = 0
  /\ blocks \in {0, MatureHeight}
  /\ onDisk \in {{}, {Miner}}
  /\ loaded = onDisk
  /\ files = {}
  /\ filesAtStart = {}
  /\ visited = <<>>
  /\ endLoaded = <<>>
  /\ scen = 1 /\ cleanIdx = 1 /\ sgn = 0 /\ conn = NoWallet /\ signers = <<>>
  /\ lastRpc = NoRpc
  /\ ensureLog = <<>>
  /\ calls = 0
  /\ ledger = NoLedger
  /\ fw = NoFw
  /\ descriptor = NoDescriptor
  /\ kNode = <<>>
  /\ kRuns = <<>>
  /\ addrs = 0 /\ pays = <<>> /\ lp = NoLp /\ msCalls = <<>>
  /\ fixture = NoFixture
  /\ keyless = {}

Next ==
  \/ StartRun \/ MainReturn \/ MainCatch \/ NodeRestart
  \/ SuInfo \/ SiCreate \/ SiLoad \/ SiAddr \/ SiGen
  \/ SuEmList \/ SuEmCreate \/ SuEmLoad
  \/ ClUnload \/ GaAccess
  \/ SgList \/ SgLoad \/ SgCreate
  \/ FwBalance \/ FwNewAddr \/ FwMine \/ FwBalance2
  \/ FwEmList \/ FwEmCreate \/ FwEmLoad
  \/ FwMinerBalance \/ FwSend \/ FwConfirm \/ FwFinal
  \/ SgExtract \/ MsAddresses
  \/ WtList \/ WtLoad \/ WtCreate \/ WtImport
  \/ FmFund \/ PtPattern \/ SvWrite

Spec == Init /\ [][Next]_vars
(***************************************************************************)
(* fundWallet on its own: one call on a loaded signer wallet, for every    *)
(* state of the 'miner' wallet and every ledger of LedgerInits.            *)
(***************************************************************************)
InitFund ==
  /\ pc = "fw_balance"
  /\ run = 1
  /\ exitCode = -1
  /\ faults = 0
  /\ blocks = MatureHeight
  /\ conn = SignerName(Scenarios[1], 1)
  /\ \E m \in {{}, {Miner}} : onDisk = {conn} \cup m
  /\ loaded \in {{conn}, onDisk}
  /\ files = {}
  /\ filesAtStart = {}
  /\ visited = <<[name |-> Scenarios[1], present |-> FALSE, ran |-> TRUE]>>
  /\ endLoaded = <<>>
  /\ scen = 1 /\ cleanIdx = 1 /\ sgn = 0 /\ signers = <<>>
  /\ lastRpc = NoRpc
  /\ ensureLog = <<>>
  /\ calls = 0
  /\ ledger = NoLedger
  /\ fw = NoFw
  /\ descriptor = NoDescriptor
  /\ kNode = <<>>
  /\ kRuns = <<>>
  /\ addrs = 0 /\ pays = <<>> /\ lp = NoLp /\ msCalls = <<>>
  /\ fixture = NoFixture
  /\ keyless = {}

NextFund ==
  \/ FwBalance \/ FwNewAddr \/ FwMine \/ FwBalance2
  \/ FwEmList \/ FwEmCreate \/ FwEmLoad
  \/ FwMinerBalance \/ FwSend \/ FwConfirm \/ FwFinal

SpecFund == InitFund /\ [][NextFund]_vars

(***************************************************************************)
(* The ensure-wallet step on its own: called again and again on one wallet *)
(* of a node that answers, for every state of that wallet.                 *)
(***************************************************************************)
\* The caller calls the step once more on the same wallet.
EnsureAgain ==
  /\ calls < MaxCalls
  /\ \/ pc = "fw_balance" /\ pc' = "sg_list"
     \/ pc = "wt_import" /\ pc' = "wt_list"
  /\ calls' = calls + 1
  /\ UNCHANGED <<faults, files, lastRpc, ensureLog, descriptor, nodeVars,
                 runVars, loopVars, fundVars, keyVars, chainVars>>

InitEnsure ==
  /\ pc \in {"sg_list", "wt_list"}
  /\ run = 1
  /\ exitCode = -1
  /\ faults = MaxFaults
  /\ blocks = MatureHeight
  /\ scen \in 1..Len(Scenarios)
  /\ sgn \in 0..(NumSigners - 1)
  /\ LET w == IF pc = "sg_list" THEN SignerName(Scenarios[scen], sgn + 1)
              ELSE WatcherName(Scenarios[scen])
     IN  /\ onDisk \in {{Miner}, {Miner, w}}
         /\ loaded \in {{Miner}, onDisk}
  /\ files = {}
  /\ filesAtStart = {}
  /\ visited = <<>>
  /\ endLoaded = <<>>
  /\ cleanIdx = 1 /\ conn = NoWallet /\ signers = <<>>
  /\ lastRpc = NoRpc
  /\ ensureLog = <<>>
  /\ calls = 1
  /\ ledger = NoLedger
  /\ fw = NoFw
  /\ descriptor = NoDescriptor
  /\ kNode = <<>>
  /\ kRuns = <<>>
  /\ addrs = 0 /\ pays = <<>> /\ lp = NoLp /\ msCalls = <<>>
  /\ fixture = NoFixture
  /\ keyless = {w \in onDisk : w[2] = "watcher"}

NextEnsure ==
  \/ SgList \/ SgLoad \/ SgCreate
  \/ WtList \/ WtLoad \/ WtCreate
  \/ EnsureAgain

SpecEnsure == InitEnsure /\ [][NextEnsure]_vars

(***************************************************************************)
(* The key chain on its own: extractWalletKeys for both signers and the    *)
(* descriptor importMultisigDescriptor builds, executed repeatedly against *)
(* a node whose answers to listdescriptors are fixed.                      *)
(***************************************************************************)
\* sgs in the opposite order.
Reversed(sgs) == [i \in 1..Len(sgs) |-> sgs[Len(sgs) + 1 - i]]

\* One execution: the signers array as createSignerWallets builds it, the
\* descriptor built from it, and the descriptor built from the same signers
\* handed over in the opposite order.
KeyChain ==
  /\ Len(kRuns) < MaxExecs
  /\ \E r0 \in RandomDraws, r1 \in RandomDraws :
       LET sgs == <<ExtractWalletKeys(0, kNode[1], r0),
                    ExtractWalletKeys(1, kNode[2], r1)>>
       IN  kRuns' = Append(kRuns, [signers    |-> sgs,
                                   descriptor |-> MultisigDescriptor(sgs),
                                   permuted   |-> MultisigDescriptor(Reversed(sgs))])
  /\ UNCHANGED <<pc, faults, files, lastRpc, ensureLog, calls, descriptor,
                 nodeVars, runVars, loopVars, fundVars, kNode, chainVars>>

InitKeys ==
  /\ pc = "idle"
  /\ run = 0
  /\ exitCode = -1
  /\ faults = 0
  /\ blocks = MatureHeight
  /\ onDisk = {} /\ loaded = {}
  /\ files = {}
  /\ filesAtStart = {}
  /\ visited = <<>>
  /\ endLoaded = <<>>
  /\ scen = 1 /\ cleanIdx = 1 /\ sgn = 0 /\ conn = NoWallet /\ signers = <<>>
  /\ lastRpc = NoRpc
  /\ ensureLog = <<>>
  /\ calls = 0
  /\ ledger = NoLedger
  /\ fw = NoFw
  /\ descriptor = NoDescriptor
  /\ kNode \in [1..NumSigners -> DescAnswers]
  /\ kRuns = <<>>
  /\ addrs = 0 /\ pays = <<>> /\ lp = NoLp /\ msCalls = <<>>
  /\ fixture = NoFixture
  /\ keyless = {}

NextKeys == KeyChain

SpecKeys == InitKeys /\ [][NextKeys]_vars
(***************************************************************************)
(* Properties of the pipeline (Spec).                                      *)
(***************************************************************************)
\* The RPCs that change a wallet or the set of loaded wallets.
MutatingRpcs == {"createwallet", "loadwallet", "unloadwallet",
                 "importdescriptors", "sendtoaddress", "sendmany",
                 "generatetoaddress"}

\* The locations inside a scenario's generator.
SetupPcs == {"idle", "su_info", "si_create", "si_load", "si_addr", "si_gen",
             "su_em_list", "su_em_create", "su_em_load", "cl_unload",
             "ga_access", "main_done", "main_catch"}

InGenerator == pc \notin SetupPcs

\* C1: in a run that starts while scenario S's fixture file exists, no
\* wallet-mutating RPC is issued against S's signer or watcher wallets.
C1_NoMutationBehindFixture ==
  \A s \in ScenarioSet :
    (lastRpc.method \in MutatingRpcs /\ lastRpc.target \in ScenarioWallets(s))
      => s \notin filesAtStart

\* C2: the scenarios are visited in the order bad_privacy, bad_waste,
\* good_privacy, good_waste; a scenario's generator runs if and only if its
\* fixture file is absent at the moment of the check; and the run is inside
\* a generator only for the scenario visited last, whose file was absent.
C2_FixedOrderAndGate ==
  /\ Len(visited) <= Len(Scenarios)
  /\ \A i \in 1..Len(visited) :
       /\ visited[i].name = Scenarios[i]
       /\ visited[i].ran <=> ~visited[i].present
  /\ InGenerator =>
       /\ Len(visited) = scen
       /\ visited[scen].ran
       /\ ~visited[scen].present
       /\ Scenarios[scen] \notin files
  /\ pc = "main_done" => Len(visited) = Len(Scenarios)

\* A run that skips a scenario whose file is present, then enters the
\* generator of the next one.
C2_Witness ==
  /\ Len(visited) = 2
  /\ visited[1].present /\ ~visited[1].ran
  /\ visited[2].ran
  /\ pc = "sv_write"

\* C3: the set of loaded wallets left by a second complete run equals the
\* set left by the first complete run.
C3_SameEndState ==
  Len(endLoaded) >= 2 => endLoaded[2] = endLoaded[1]

FailedConnectivityCheck ==
  lastRpc.site = "su_info" /\ lastRpc.err # ""

\* C7: when getblockchaininfo fails, setupBitcoinEnvironment raises into
\* main's catch, no RPC at all is issued afterwards in that run (so no
\* unloadwallet and no scenario RPC), no scenario is visited, no fixture
\* file is written, the wallets stay as they were, and the exit code is 1.
C7_ConnectivityFailureAborts ==
  /\ [](FailedConnectivityCheck =>
          /\ pc \in {"main_catch", "idle"}
          /\ visited = <<>>
          /\ files = filesAtStart
          /\ pc = "idle" => exitCode = 1)
  /\ [][(FailedConnectivityCheck /\ pc = "main_catch") =>
          /\ lastRpc' = lastRpc
          /\ files' = files
          /\ loaded' = loaded /\ onDisk' = onDisk
          /\ pc' = "idle" /\ exitCode' = 1]_vars

\* The process has ended with exit code 1 right after the failed check.
C7_Witness ==
  /\ FailedConnectivityCheck
  /\ pc = "idle"
  /\ exitCode = 1
  /\ files = {}
(***************************************************************************)
(* Properties of fundWallet (SpecFund).                                    *)
(***************************************************************************)
\* The RPCs fundWallet awaits outside its try: the three getbalance of the
\* target wallet, getnewaddress and the 50-block generatetoaddress.
FwDirectSites == {"fw_balance", "fw_newaddr", "fw_mine", "fw_balance2", "fw_final"}

\* The RPCs of the miner-transfer fallback, inside the try.
FwMinerPathSites == {"fw_em_list", "fw_em_create", "fw_em_load",
                     "fw_miner_balance", "fw_send", "fw_confirm"}

\* C5 as stated: fundWallet returns normally whatever the outcome of each
\* RPC it issues, so it never raises to its caller.
C5_NeverRaises == pc # "main_catch"

\* C5: fundWallet returns normally whatever the outcome of the RPCs of its
\* miner-transfer fallback (ensureMinerWallet, miner getbalance,
\* sendtoaddress, the confirming generatetoaddress) and whatever the final
\* balance; it raises exactly when an RPC outside the try fails (getbalance
\* of the target wallet, getnewaddress, the 50-block generatetoaddress).
C5_RaisesOnlyOutsideTry ==
  /\ pc = "main_catch" <=> (lastRpc.err # "" /\ lastRpc.site \in FwDirectSites)
  /\ (lastRpc.err # "" /\ lastRpc.site \in FwMinerPathSites) =>
        pc \in {"fw_em_load", "fw_miner_balance", "fw_final"}
  /\ pc = "sg_extract" =>
        \/ fw.cur > ShortCircuitBTC * COIN
        \/ fw.final # -1

\* fundWallet has returned after a failure inside the fallback, with a final
\* balance still below the threshold.
C5_Witness ==
  /\ pc = "sg_extract"
  /\ faults > 0
  /\ fw.miner = -1
  /\ fw.final # -1 /\ fw.final < FallbackBTC * COIN

\* C6: the three balances fundWallet reads satisfy
\* initial <= after-mining <= final.
C6_BalanceMonotone ==
  /\ fw.after # -1 => fw.cur # -1 /\ fw.cur <= fw.after
  /\ fw.final # -1 => fw.after # -1 /\ fw.after <= fw.final

\* All three balances were read and the miner's transfer has arrived.
C6_Witness ==
  /\ pc = "sg_extract"
  /\ fw.miner > MinerMarginBTC * COIN
  /\ fw.cur <= fw.after
  /\ fw.after < fw.final
(***************************************************************************)
(* Properties of the ensure-wallet step (SpecEnsure).                      *)
(***************************************************************************)
\* The step has returned to its caller.
EnsureReturned == pc \in {"fw_balance", "wt_import"}

\* The wallet the step was called for.
EnsuredWallet == IF pc = "fw_balance" THEN CurrentSigner ELSE CurrentWatcher

\* C4: whatever the wallet's initial state (missing, on disk but unloaded,
\* loaded), every one of N calls in a row returns without raising, with the
\* wallet loaded and the connection bound to its name, and every call after
\* the first issues listwallets only: no loadwallet and no createwallet.
C4_EnsureIdempotent ==
  /\ pc # "main_catch"
  /\ EnsureReturned =>
       /\ EnsuredWallet \in loaded
       /\ conn = EnsuredWallet
       /\ calls >= 2 => ensureLog = <<"listwallets">>

\* The last of the calls in a row has returned for a signer wallet.
C4_Witness ==
  /\ pc = "fw_balance"
  /\ calls = MaxCalls
  /\ conn = CurrentSigner
  /\ ensureLog = <<"listwallets">>

(***************************************************************************)
(* Properties of the key chain (SpecKeys).                                 *)
(***************************************************************************)
\* xs is in ascending lexicographic order.
IsSorted(xs) == \A i \in 1..(Len(xs) - 1) : ~LexLess(xs[i + 1], xs[i])

\* C8: the descriptor lists the signers' xpubs in lexicographically sorted
\* order, and the same signers handed over in the opposite order give the
\* identical descriptor.
C8_DescriptorSorted ==
  \A e \in 1..Len(kRuns) :
    LET d   == kRuns[e].descriptor
        sgs == kRuns[e].signers
    IN  /\ Len(d.keys) = Len(sgs)
        /\ {d.keys[i] : i \in 1..Len(d.keys)} = {sgs[i].xpub : i \in 1..Len(sgs)}
        /\ IsSorted(d.keys)
        /\ kRuns[e].permuted = d

\* The signers array holds [B, A] with A < B and the descriptor lists [A, B].
C8_Witness ==
  \E e \in 1..Len(kRuns) :
    LET sgs == kRuns[e].signers
    IN  /\ LexLess(sgs[2].xpub, sgs[1].xpub)
        /\ kRuns[e].descriptor.keys = <<sgs[2].xpub, sgs[1].xpub>>

\* C9: against the same node state, two executions of the chain produce the
\* same ordered xpub list and the same descriptor, on the parsed and on the
\* fallback path of key extraction.
C9_DescriptorReproducible ==
  Len(kRuns) >= 2 =>
    /\ kRuns[2].descriptor.keys = kRuns[1].descriptor.keys
    /\ kRuns[2].descriptor = kRuns[1].descriptor

\* C10: when key extraction fails, two calls of extractWalletKeys with the
\* same signerIndex return the same xfp, the same xpub and the same
\* bip32Path.
C10_FallbackDeterministic ==
  \A i \in 1..NumSigners :
    (Len(kRuns) >= 2 /\ UsesFallback(kNode[i])) =>
       /\ kRuns[2].signers[i].xfp = kRuns[1].signers[i].xfp
       /\ kRuns[2].signers[i].xpub = kRuns[1].signers[i].xpub
       /\ kRuns[2].signers[i].bip32Path = kRuns[1].signers[i].bip32Path
(***************************************************************************)
(* Properties of key extraction inside the pipeline (Spec).                *)
(***************************************************************************)
\* The shapes of the triple extractWalletKeys returns.
IsKeyTriple(k) ==
  /\ Len(k.xpub) >= 1
  /\ Len(k.xfp) = 8
  /\ k.bip32Path = "m/84'/1'/0'"

\* C11: whatever listdescriptors answers (an error, an empty list, no
\* matching descriptor, a descriptor that does not parse, one that does),
\* extractWalletKeys returns a triple {xpub, xfp, bip32Path} without raising,
\* the triple is pushed on signers, and the chain goes on: to the next
\* signer, or with both signers to multisig assembly.
C11_ExtractionNonFatal ==
  lastRpc.site = "sg_extract" =>
    /\ pc \in {"sg_list", "ms_addresses"}
    /\ Len(signers) = IF pc = "sg_list" THEN sgn ELSE NumSigners
    /\ Len(signers) >= 1
    /\ IsKeyTriple(signers[Len(signers)])
    /\ signers[Len(signers)].wallet = lastRpc.target

\* listdescriptors failed for the second signer and the chain is at multisig
\* assembly with that signer's fallback keys.
C11_Witness ==
  /\ lastRpc.site = "sg_extract"
  /\ lastRpc.err # ""
  /\ pc = "ms_addresses"
  /\ signers[NumSigners].xfp = <<0, 0, 0, 2, 0, 0, 0, 2>>
(***************************************************************************)
(* createSignerWallets and createMultisigAddress of one scenario, one step *)
(* per RPC (SpecAssemble).                                                 *)
(***************************************************************************)
InitAssemble ==
  /\ pc = "sg_list"
  /\ run = 1
  /\ exitCode = -1
  /\ faults = 0
  /\ blocks = MatureHeight
  /\ scen \in 1..Len(Scenarios)
  /\ onDisk \in {{}, {Miner} \cup ScenarioWallets(Scenarios[scen])}
  /\ loaded \in {onDisk, onDisk \ {Miner}}
  /\ files = {}
  /\ filesAtStart = {}
  /\ visited = <<[name |-> Scenarios[scen], present |-> FALSE, ran |-> TRUE]>>
  /\ endLoaded = <<>>
  /\ cleanIdx = 1 /\ sgn = 0 /\ conn = NoWallet /\ signers = <<>>
  /\ lastRpc = NoRpc
  /\ ensureLog = <<>>
  /\ calls = 0
  /\ ledger = NoLedger
  /\ fw = NoFw
  /\ descriptor = NoDescriptor
  /\ kNode = <<>>
  /\ kRuns = <<>>
  /\ addrs = 0 /\ pays = <<>> /\ lp = NoLp /\ msCalls = <<>>
  /\ fixture = NoFixture
  /\ keyless = {w \in onDisk : w[2] = "watcher"}

NextAssemble ==
  \/ SgList \/ SgLoad \/ SgCreate
  \/ FwBalance \/ FwNewAddr \/ FwMine \/ FwBalance2
  \/ FwEmList \/ FwEmCreate \/ FwEmLoad
  \/ FwMinerBalance \/ FwSend \/ FwConfirm \/ FwFinal
  \/ SgExtract
  \/ MsNewAddr \/ MsInfo \/ MsCreate

SpecAssemble == InitAssemble /\ [][NextAssemble]_vars

\* createSignerWallets has returned.
SignersReturned == pc \in {"ms_addresses", "ms_info", "ms_create", "wt_list"}

\* C18: when createSignerWallets has returned the signer set has exactly
\* totalSigners = 2 entries; every createmultisig call has threshold 2 and a
\* key list holding exactly one public key of each of the 2 signers, in the
\* order of the signers; none has fewer keys than the threshold.
C18_SignerSetAndThreshold ==
  /\ SignersReturned => Len(signers) = TotalSigners
  /\ \A c \in 1..Len(msCalls) :
       /\ msCalls[c].threshold = RequiredSigners
       /\ Len(msCalls[c].keys) = TotalSigners
       /\ Len(msCalls[c].keys) >= msCalls[c].threshold
       /\ \A k \in 1..Len(msCalls[c].keys) :
            msCalls[c].keys[k].owner = signers[k].wallet
       /\ \A k, l \in 1..Len(msCalls[c].keys) :
            k # l => msCalls[c].keys[k].addr # msCalls[c].keys[l].addr
  /\ pc = "wt_list" => Len(msCalls) = MsAddressCount

\* createMultisigAddress has returned its 4 addresses.
C18_Witness ==
  /\ pc = "wt_list"
  /\ Len(msCalls) = MsAddressCount
  /\ \A c \in 1..Len(msCalls) : msCalls[c].ok
  /\ msCalls[1].keys[2].owner = SignerName(Scenarios[scen], 2)
(***************************************************************************)
(* The chain of one scenario after createSignerWallets, one step per RPC:  *)
(* createMultisigAddress, createWatcherWallet, fundMultisigAddresses, the  *)
(* pattern generator and saveCaravanConfig, for every scenario and a range *)
(* of balances of the coordinator signers[0].wallet.                       *)
(***************************************************************************)
CoordinatorBalances ==
  {0, Btc(1, 20), Btc(3, 25), Btc(3, 10), 5 * COIN, 8 * COIN,
   13 * COIN + Btc(1, 10),
   BlockRewardBTC * COIN}

\* The signers createSignerWallets returns when listdescriptors gave no
\* usable descriptor.
SignersOf(s) ==
  [k \in 1..NumSigners |->
     LET f == FallbackKeys(k - 1, 0)
     IN  [wallet |-> SignerName(s, k), name |-> SignerName(s, k),
          xpub |-> f.xpub, xfp |-> f.xfp, bip32Path |-> f.bip32Path]]

InitScenario ==
  /\ pc = "ms_addresses"
  /\ run = 1
  /\ exitCode = -1
  /\ faults = 0
  /\ blocks = MatureHeight
  /\ scen \in 1..Len(Scenarios)
  /\ \E w \in SUBSET {WatcherName(Scenarios[scen])} :
       onDisk = {SignerName(Scenarios[scen], k) : k \in 1..NumSigners} \cup w
  /\ loaded = onDisk
  /\ files = {}
  /\ filesAtStart = {}
  /\ visited = <<[name |-> Scenarios[scen], present |-> FALSE, ran |-> TRUE]>>
  /\ endLoaded = <<>>
  /\ cleanIdx = 1 /\ sgn = NumSigners - 1
  /\ conn = SignerName(Scenarios[scen], NumSigners)
  /\ signers = SignersOf(Scenarios[scen])
  /\ lastRpc = NoRpc
  /\ ensureLog = <<>>
  /\ calls = 0
  /\ \E b \in CoordinatorBalances : ledger = [NoLedger EXCEPT !.bal["wallet"] = b]
  /\ fw = NoFw
  /\ descriptor = NoDescriptor
  /\ kNode = <<>>
  /\ kRuns = <<>>
  /\ addrs = 0 /\ pays = <<>> /\ lp = NoLp /\ msCalls = <<>>
  /\ fixture = NoFixture
  /\ keyless = {w \in onDisk : w[2] = "watcher"}

ScenarioNext ==
  \/ MsNewAddr \/ MsInfo \/ MsCreate
  \/ WtList \/ WtLoad \/ WtCreate \/ WtImport
  \/ FmBalance \/ FmSendReduced \/ FmSendFull \/ FmNewAddr \/ FmGen
  \/ PtCall \/ PtBalance \/ PtAddr \/ PtSend \/ PtBatch \/ PtMineAddr \/ PtMine
  \/ SvWrite

SpecScenario == InitScenario /\ [][ScenarioNext]_vars

\* The RPCs of fundMultisigAddresses and of the pattern generators.
FundingSites == {"fm_fund", "fm_send_reduced", "fm_send_full", "fm_newaddr", "fm_gen"}
PatternSites == {"pt_balance", "pt_addr", "pt_send", "pt_batch", "pt_mine_addr", "pt_mine"}
SpendSites == {"pt_send", "pt_batch"}

\* The last RPC is one of scenario s's pattern generator.
InPattern(s) == lastRpc.site \in PatternSites /\ Scenarios[scen] = s /\ lp.j >= 1

\* The destinations of the single payments logged so far.
Destinations == {pays[k].to : k \in 1..Len(pays)}

\* C12: in the bad-privacy scenario with a coordinator balance of at least 5
\* at the start of the pattern and no gateway failure, the pattern does not
\* raise, and the fixture is written after exactly 8 payments of 0.5 to one
\* address obtained once followed by payments of 1.0, 2.0 and 5.0 to 3
\* distinct fresh addresses, with exactly 2 signer entries and quorum 2 of 2.
C12_BadPrivacyCompletes ==
  /\ (InPattern("bad_privacy") /\ lp.start >= 5 * COIN /\ faults = 0)
       => pc # "main_catch"
  /\ fixture.name = "bad_privacy" =>
       /\ Len(pays) = 11
       /\ \A k \in 1..8 : pays[k].to = pays[1].to /\ pays[k].range = {Btc(1, 2)}
       /\ <<pays[9].range, pays[10].range, pays[11].range>>
            = << {COIN}, {2 * COIN}, {5 * COIN} >>
       /\ Cardinality({pays[k].to : k \in {1, 9, 10, 11}}) = 4
       /\ \A k \in 1..11 : pays[k].ok
       /\ lastRpc.method = "generatetoaddress"
       /\ Len(fixture.keys) = 2
       /\ fixture.requiredSigners = 2 /\ fixture.totalSigners = 2

\* C13 as stated: with a coordinator balance of 0 createGoodPrivacyPattern
\* returns after exactly 3 sendtoaddress calls to 3 fresh addresses.
C13_ZeroBalanceThreePayments ==
  (InPattern("good_privacy") /\ lp.bal = 0 /\ faults = 0 /\ pc = "sv_write")
    => Len(pays) = 3 /\ Cardinality(Destinations) = 3

\* C13, amended: with a balance below 1 createGoodPrivacyPattern issues at
\* most 3 sendtoaddress calls, each of a minimal amount to its own fresh
\* address; it stops at the first send that fails, and no failure of a send
\* raises; with a balance of 0 the first send fails, so the pattern returns
\* after exactly one sendtoaddress and no payment.
C13_DegradedPath ==
  (InPattern("good_privacy") /\ lp.bal >= 0 /\ lp.bal < PatternLowBelow) =>
    /\ Len(pays) <= 3
    /\ \A k \in 1..Len(pays) : pays[k].range = Drawn(1, 6, 100)
    /\ Cardinality(Destinations) = Len(pays)
    /\ \A k \in 1..(Len(pays) - 1) : pays[k].ok
    /\ lastRpc.site = "pt_send" => pc # "main_catch"
    /\ pc \in {"pt_addr", "pt_send"} => \A k \in 1..Len(pays) : pays[k].ok
    /\ (lp.bal = 0 /\ pc \in {"pt_mine_addr", "pt_mine", "sv_write"})
         => Len(pays) = 1 /\ ~pays[1].ok

\* The pattern returned from the degraded path with balance 0 after its one
\* failed send.
C13_Witness ==
  /\ InPattern("good_privacy") /\ lp.bal = 0 /\ faults = 0
  /\ pc = "sv_write"
  /\ Len(pays) = 1 /\ ~pays[1].ok

\* C14: createGoodPrivacyPattern pays every time to the address of the
\* getnewaddress just before the send, so on both of its paths no two of its
\* payments share a destination.
C14_FreshAddressPerPayment ==
  InPattern("good_privacy") =>
    /\ Cardinality(Destinations) = Len(pays)
    /\ \A k \in 1..Len(pays) : pays[k].to = OwnAddress(k)

\* All 8 payments of the full path were made.
C14_Witness ==
  /\ InPattern("good_privacy") /\ lp.bal >= PatternLowBelow
  /\ Len(pays) = 8 /\ \A k \in 1..8 : pays[k].ok
  /\ pc = "sv_write"

\* C15: every pattern generator has read the coordinator's balance before it
\* spends, and a spend refused for insufficient funds does not raise.
C15_BalanceReadBeforeSpend ==
  (lastRpc.site \in SpendSites /\ lp.j >= 1) =>
    /\ lp.bal # -1
    /\ lastRpc.err = "funds" => pc # "main_catch"

\* C16: no sendtoaddress of fundMultisigAddresses that the node refuses for
\* insufficient funds aborts the scenario.
C16_FundingNeverAborts ==
  (lastRpc.site \in {"fm_send_reduced", "fm_send_full"} /\ lastRpc.err = "funds")
    => pc # "main_catch"

\* C17: the only RPCs addressed to a watcher wallet are loadwallet,
\* createwallet, unloadwallet and importdescriptors, and every watcher wallet
\* on the node has private keys disabled.
C17_WatcherNeverSpends ==
  /\ lastRpc.target[2] = "watcher" =>
       lastRpc.method \in {"loadwallet", "createwallet", "unloadwallet",
                           "importdescriptors"}
  /\ \A w \in onDisk : w[2] = "watcher" => w \in keyless

\* The watcher was created by this run and the descriptor imported into it.
C17_Witness ==
  /\ lastRpc.method = "importdescriptors" /\ lastRpc.target[2] = "watcher"
  /\ lastRpc.err = ""
  /\ \E k \in 1..Len(ensureLog) : ensureLog[k] = "createwallet"

(***************************************************************************)
(* fundWallet in both variants on a node that answers every RPC, followed  *)
(* to its end: every step that is enabled is eventually taken.             *)
(***************************************************************************)
InitFundBounded ==
  /\ pc \in {"fw_balance", "pf_newaddr"}
  /\ run = 1
  /\ exitCode = -1
  /\ faults = 0
  /\ blocks = MatureHeight
  /\ conn = SignerName(Scenarios[1], 1)
  /\ \E m \in {{}, {Miner}} : onDisk = {conn} \cup m
  /\ loaded \in {{conn}, onDisk}
  /\ files = {}
  /\ filesAtStart = {}
  /\ visited = <<[name |-> Scenarios[1], present |-> FALSE, ran |-> TRUE]>>
  /\ endLoaded = <<>>
  /\ scen = 1 /\ cleanIdx = 1 /\ sgn = 0 /\ signers = <<>>
  /\ lastRpc = NoRpc
  /\ ensureLog = <<>>
  /\ calls = 0
  /\ ledger = NoLedger
  /\ fw = NoFw
  /\ descriptor = NoDescriptor
  /\ kNode = <<>>
  /\ kRuns = <<>>
  /\ addrs = 0 /\ pays = <<>> /\ lp = NoLp /\ msCalls = <<>>
  /\ fixture = NoFixture
  /\ keyless = {}

NextFundBounded ==
  \/ FwBalance \/ FwNewAddr \/ FwMine \/ FwBalance2
  \/ FwEmList \/ FwEmCreate \/ FwEmLoad
  \/ FwMinerBalance \/ FwSend \/ FwConfirm \/ FwFinal
  \/ PfNewAddr \/ PfMine \/ PfPoll \/ PfRescan \/ PfFinal

SpecFundBounded ==
  InitFundBounded /\ [][NextFundBounded]_vars /\ WF_vars(NextFundBounded)

\* fundWallet has returned or raised.
FwEnded == pc \in {FwReturn, FwOnError}

PollingSites == {"pf_newaddr", "pf_mine", "pf_poll", "pf_rescan", "pf_final"}

\* C20: when every RPC returns, each call of fundWallet ends; the polling
\* loop of the older variant checks the balance at most 15 times, with one
\* delay after each check that fell short, before it moves on to the rescan
\* and one last read; the current fundWallet reads the balance of the wallet
\* it funds at most 3 times (and the miner's at most once, in between) and
\* waits for at most one settle delay.
C20_FundWalletBounded ==
  /\ <>FwEnded
  /\ [](lastRpc.site = "pf_poll" =>
          /\ fw.reads <= PollLimit
          /\ fw.i <= PollLimit
          /\ fw.delays <= fw.reads)
  /\ [](lastRpc.site \in {"pf_rescan", "pf_final"} =>
          /\ fw.i = PollLimit
          /\ fw.reads <= PollLimit + 1
          /\ fw.delays <= PollLimit + 1)
  /\ [](lastRpc.site \notin PollingSites => fw.reads <= 3 /\ fw.delays <= 1)

\* The polling loop ran out after 15 checks that fell short and fundWallet
\* went on to its end.
C20_Witness ==
  /\ pc = FwReturn
  /\ lastRpc.site = "pf_final"
  /\ fw.reads = PollLimit + 1 /\ fw.delays >= PollLimit

\* The ensure-wallet step's first, second and third RPC.
EnsureListSites == {"sg_list", "wt_list"}
EnsureLoadSites == {"sg_load", "wt_load"}
EnsureCreateSites == {"sg_create", "wt_create"}

SignerSites == {"sg_list", "sg_load", "sg_create"}
EnsureSites == EnsureListSites \cup EnsureLoadSites \cup EnsureCreateSites

\* The wallet the step at pc x works on, the pc of its loadwallet and of its
\* createwallet, and the pc where the step has returned.
EnsureSubject(x) == IF x \in SignerSites THEN CurrentSigner ELSE CurrentWatcher
EnsureLoadPc(x) == IF x \in SignerSites THEN "sg_load" ELSE "wt_load"
EnsureCreatePc(x) == IF x \in SignerSites THEN "sg_create" ELSE "wt_create"
EnsureDonePc(x) == IF x \in SignerSites THEN "fw_balance" ELSE "wt_import"

\* C21: the ensure-wallet step of a signer or watcher wallet issues
\* listwallets and returns at once when the name is listed; else it issues
\* loadwallet once; it issues createwallet only after that loadwallet failed
\* with code -18, with disable_private_keys true for the watcher and false
\* for a signer and descriptors true; any other error of loadwallet goes to
\* the caller and no createwallet follows; and no loadwallet or createwallet
\* of such a wallet is issued anywhere else.
C21_EnsureLifecycle ==
  [][/\ pc \in EnsureListSites =>
          /\ lastRpc'.method = "listwallets"
          /\ pc' = IF lastRpc'.err # "" THEN "main_catch"
                   ELSE IF EnsureSubject(pc) \in loaded THEN EnsureDonePc(pc)
                   ELSE EnsureLoadPc(pc)
          /\ loaded' = loaded /\ onDisk' = onDisk
     /\ pc \in EnsureLoadSites =>
          /\ lastRpc.method = "listwallets" /\ lastRpc.err = ""
          /\ EnsureSubject(pc) \notin loaded
          /\ lastRpc'.method = "loadwallet"
          /\ lastRpc'.target = EnsureSubject(pc)
          /\ pc' = IF lastRpc'.err = "" THEN EnsureDonePc(pc)
                   ELSE IF lastRpc'.err = "notfound" THEN EnsureCreatePc(pc)
                   ELSE "main_catch"
     /\ pc \in EnsureCreateSites =>
          /\ lastRpc.method = "loadwallet" /\ lastRpc.err = "notfound"
          /\ lastRpc.target = EnsureSubject(pc)
          /\ lastRpc'.method = "createwallet"
          /\ lastRpc'.target = EnsureSubject(pc)
          /\ lastRpc'.args = <<pc = "wt_create", FALSE, "", FALSE, TRUE>>
          /\ pc' \in {EnsureDonePc(pc), "main_catch"}
     /\ (/\ lastRpc' # lastRpc
         /\ lastRpc'.method \in {"loadwallet", "createwallet"}
         /\ lastRpc'.target # Miner)
          => pc \in EnsureLoadSites \cup EnsureCreateSites
    ]_vars

\* A watcher wallet that was missing has been created after its loadwallet
\* failed with code -18.
C21_Witness ==
  /\ lastRpc.site = "wt_create" /\ lastRpc.err = ""
  /\ lastRpc.args[1]
  /\ ensureLog = <<"listwallets", "loadwallet", "createwallet">>
  /\ lastRpc.target \in loaded

(***************************************************************************)
(* Further properties of fundWallet (SpecFund).                            *)
(***************************************************************************)
\* C22: whenever the balance fundWallet reads first is at least the funding
\* threshold 5, fundWallet returns at once: that getbalance stays its only
\* RPC and the chain and the wallets are as they were.
C22_ShortCircuitAtThreshold ==
  (fw.cur # -1 /\ fw.cur >= ShortCircuitBTC * COIN) =>
    /\ lastRpc.site = "fw_balance"
    /\ pc = FwReturn
    /\ blocks = MatureHeight

\* C23: fundWallet applies the threshold of its short-circuit (5) throughout:
\* a balance after mining below it leads into the miner fallback, and a
\* final balance below it is reported as the degraded outcome.
C23_OneThreshold ==
  /\ (lastRpc.site = "fw_balance2" /\ lastRpc.err = ""
        /\ fw.after < ShortCircuitBTC * COIN) => pc = "fw_em_list"
  /\ (fw.final # -1 /\ fw.final < ShortCircuitBTC * COIN) => FwWarns(fw.final)

\* C24: in the fallback the miner's balance is read after ensureMinerWallet;
\* sendtoaddress is issued only when that balance exceeds 10, from the miner
\* wallet and for 5, and when it succeeds exactly one generatetoaddress of 1
\* block follows; when the balance does not exceed 10 the final getbalance
\* comes next; no error of the fallback's RPCs raises: control stays in the
\* fallback or goes on to the final getbalance, which has been read whenever
\* fundWallet returns after the fallback was entered.
C24_FallbackGatedAndOrdered ==
  /\ [](/\ pc \in {"fw_send", "fw_confirm"} => fw.miner > 10 * COIN
        /\ pc = "fw_confirm" =>
             /\ lastRpc.method = "sendtoaddress" /\ lastRpc.target = Miner
             /\ lastRpc.err = ""
             /\ ledger.pending["wallet"] = 5 * COIN
             /\ ledger.bal["miner"] = fw.miner - 5 * COIN - Fee
        /\ pc = "main_catch" => lastRpc.site \notin FwMinerPathSites
        /\ (pc = FwReturn /\ fw.after # -1) => fw.final # -1)
  /\ [][/\ pc = "fw_miner_balance" =>
             /\ lastRpc'.method = "getbalance" /\ lastRpc'.target = Miner
             /\ pc' = IF lastRpc'.err = "" /\ fw'.miner > 10 * COIN
                        THEN "fw_send" ELSE "fw_final"
        /\ lastRpc'.method \in {"sendtoaddress", "sendmany"} => pc = "fw_send"
        /\ pc = "fw_send" =>
             pc' = IF lastRpc'.err = "" THEN "fw_confirm" ELSE "fw_final"
        /\ pc = "fw_confirm" =>
             /\ lastRpc'.method = "generatetoaddress"
             /\ lastRpc'.err = "" => blocks' = Min(blocks + 1, MaxBlocks)
             /\ pc' = "fw_final"
        /\ pc = "fw_final" => lastRpc'.method = "getbalance" /\ lastRpc'.target = conn
        /\ pc \in FwMinerPathSites => pc' \in FwMinerPathSites \cup {"fw_final"}
       ]_vars

\* The transfer was made and confirmed and the final balance shows it.
C24_Witness ==
  /\ pc = FwReturn
  /\ lastRpc.site = "fw_final" /\ lastRpc.err = ""
  /\ fw.miner > 10 * COIN
  /\ fw.final >= fw.after + 5 * COIN

\* The RPCs of setupBitcoinEnvironment.
SetupSites == {"su_info", "si_create", "si_load", "si_addr", "si_gen",
               "su_em_list", "su_em_create", "su_em_load"}

\* C25: when no RPC fails for a reason other than the state of the 'miner'
\* wallet, setupBitcoinEnvironment does not raise and returns with 'miner'
\* loaded, whatever that state and the block height were.
C25_SetupSurvivesMinerState ==
  (faults = 0 /\ lastRpc.site \in SetupSites) =>
    /\ pc # "main_catch"
    /\ (pc = AfterSetup /\ cleanIdx = 1) => Miner \in loaded

(***************************************************************************)
(* Further properties of the scenario chain (SpecScenario).                *)
(***************************************************************************)
WatcherEnsureSites == {"wt_list", "wt_load", "wt_create"}

\* The pcs of the chain after createWatcherWallet returned.
AfterWatcherPcs ==
  {"fm_fund", "fm_send_reduced", "fm_send_full", "fm_newaddr", "fm_gen",
   "pt_pattern", "pt_balance", "pt_addr", "pt_send", "pt_batch",
   "pt_mine_addr", "pt_mine", "sv_write"}

\* C26: whatever importdescriptors answers, createWatcherWallet returns the
\* watcher connection and the chain goes on with fundMultisigAddresses (a
\* refused import never leads to main's catch by itself, and the fixture is
\* written with a descriptor that was not imported); an error of the
\* watcher's ensure step other than loadwallet's -18 goes to main's catch and
\* the scenario writes no fixture.
C26_ImportFailureSwallowed ==
  /\ lastRpc.site = "wt_import" =>
       /\ pc = "fm_fund"
       /\ conn = CurrentWatcher
       /\ conn \in loaded
       /\ descriptor.imported <=> lastRpc.err = ""
  /\ pc \in AfterWatcherPcs => descriptor.script # ""
  /\ (/\ lastRpc.site \in WatcherEnsureSites
      /\ lastRpc.err # ""
      /\ ~(lastRpc.site = "wt_load" /\ lastRpc.err = "notfound")) =>
       /\ pc = "main_catch"
       /\ fixture = NoFixture
       /\ descriptor = NoDescriptor

\* The pattern generator has returned and the fixture is about to be written
\* although the import was refused.
C26_Witness ==
  /\ pc = "sv_write"
  /\ descriptor.script # "" /\ ~descriptor.imported
  /\ lastRpc.site = "pt_mine" /\ lastRpc.err = ""

\* C27: createMultisigAddress runs at most 4 iterations and returns after
\* exactly 4; the c-th createmultisig call is issued over exactly one key per
\* signer, in signer order, each taken from the address that signer was asked
\* for in iteration c, so that no key or address of one iteration appears in
\* another; the c-th returned address is the result of the c-th call.
MsSites == {"ms_addresses", "ms_info", "ms_create"}

C27_FourIndependentIterations ==
  /\ Len(msCalls) <= MsAddressCount
  /\ \A c \in 1..Len(msCalls) :
       /\ msCalls[c].threshold = MsThreshold
       /\ Len(msCalls[c].keys) = Len(signers)
       /\ \A k \in 1..Len(signers) :
            /\ msCalls[c].keys[k].owner = signers[k].wallet
            /\ msCalls[c].keys[k].addr = (c - 1) * Len(signers) + k
       /\ c < Len(msCalls) => msCalls[c].ok
  /\ pc \in MsSites /\ lastRpc.site \in MsSites /\ lastRpc.err = ""
       => addrs = Len(msCalls) * Len(signers) + Len(lp.keys)
                    + (IF pc = "ms_info" THEN 1 ELSE 0)
  /\ pc = "wt_list" /\ lastRpc.site = "ms_create"
       => /\ Len(msCalls) = MsAddressCount
          /\ \A c \in 1..MsAddressCount : msCalls[c].ok

C27_Witness ==
  /\ pc = "wt_list"
  /\ lastRpc.site = "ms_create"
  /\ Len(msCalls) = MsAddressCount
  /\ Len(signers) > 1
  /\ msCalls[MsAddressCount].keys[Len(signers)].addr
       = MsAddressCount * Len(signers)

\* The RPCs fundMultisigAddresses issues after its balance read.
FmSendSites == {"fm_send_reduced", "fm_send_full"}

FmStarted ==
  /\ pc \in (FundingSites \ {"fm_fund"}) \cup {FmReturn, "main_catch"}
  /\ \/ lastRpc.site = "fm_fund" /\ lastRpc.err = ""
     \/ lastRpc.site \in FundingSites \ {"fm_fund"}

\* The amount fundMultisigAddresses asks for per address at balance b.
FmTierAmount(b) ==
  IF b >= 8 * COIN THEN 2 * COIN
  ELSE Max(COIN \div 20, (b - COIN \div 5) \div MsAddressCount)

\* C28: with b the coordinator balance read at the start, b < 0.1 issues no
\* send and returns; otherwise the k-th send goes to the k-th address and asks
\* for 2.0 when b >= 8 and for floor(max(0.05, (b - 0.2)/n) * 100)/100 when
\* b < 8; the reduced tier stops at its first failed send, the full tier
\* reaches every address; and when the sends of a funding tier are over
\* (the last address was served or a send was refused) the function goes on
\* to getnewaddress and generatetoaddress of 6 blocks.
C28_TieredFunding ==
  FmStarted =>
    /\ lp.start < COIN \div 10 => pays = <<>> /\ pc = FmReturn
    /\ \A k \in 1..Len(pays) :
         /\ pays[k].to = MultisigAddress(k)
         /\ pays[k].range = {FmTierAmount(lp.start)}
         /\ k < Len(pays) => pays[k].ok
    /\ Len(pays) <= MsAddressCount
    /\ (lp.start >= 8 * COIN /\ lastRpc.site \in {"fm_newaddr", "fm_gen"})
         => Len(pays) = MsAddressCount /\ pays[MsAddressCount].ok
    /\ (faults = 0 /\ lastRpc.site \in FmSendSites
          /\ (lastRpc.err # "" \/ lp.i = MsAddressCount))
         => pc = "fm_newaddr"
    /\ (lastRpc.site = "fm_gen" /\ lastRpc.err = "") => pc = FmReturn

RECURSIVE Requested(_)
\* The sum of the amounts the spends of ps asked for.
Requested(ps) ==
  IF ps = <<>> THEN 0
  ELSE (CHOOSE a \in Head(ps).range : TRUE) + Requested(Tail(ps))

\* C29: in the reduced tier the amounts requested of sendtoaddress, summed
\* over the addresses served, never exceed the balance read at the start.
C29_ReducedSumWithinBalance ==
  lastRpc.site = "fm_send_reduced" => Requested(pays) <= lp.start

\* Positions of a pattern generator: paying, and mining its confirmation.
PtPayingPcs == {"pt_balance", "pt_addr", "pt_send", "pt_batch"}
PtMiningPcs == {"pt_mine_addr", "pt_mine"}

\* C30: a pattern generator returns normally only straight after a successful
\* generatetoaddress; that call is issued once, as the generator's last RPC
\* (control then leaves the generator), and once the generator has gone on to
\* mine it never returns to a sendtoaddress or sendmany; this covers the
\* degraded path and a payment loop left on a failed send.
C30_OneFinalMining ==
  /\ [](pc = "sv_write"
          => /\ lastRpc.site = "pt_mine"
             /\ lastRpc.method = "generatetoaddress"
             /\ lastRpc.err = "")
  /\ [][/\ pc = "pt_mine" => /\ lastRpc.site = "pt_mine_addr"
                             /\ lastRpc'.site = "pt_mine"
                             /\ pc' \in {"sv_write", "main_catch"}
        /\ (lastRpc'.site = "pt_mine" /\ lastRpc.site # "pt_mine")
             => pc = "pt_mine"
        /\ pc \in PtMiningPcs => pc' \notin PtPayingPcs
        /\ (pc \in PtPayingPcs /\ lastRpc'.site \in PatternSites)
             => lastRpc'.method # "generatetoaddress"]_vars

C30_Witness ==
  /\ pc = "sv_write"
  /\ lastRpc.site = "pt_mine"
  /\ ReadsBalance(Scenarios[scen])
  /\ lp.bal < PatternLowBelow
  /\ Len(pays) >= 2
  /\ ~pays[Len(pays)].ok

(***************************************************************************)
(* Properties of a scenario's generator as a whole (Spec).                 *)
(***************************************************************************)
\* The ensure-wallet step of the watcher.
WatcherEnsurePcs == {"wt_list", "wt_load", "wt_create"}

\* The last RPC was issued by fundWallet.
FundWalletRpc == lastRpc.site \in FwDirectSites \cup FwMinerPathSites

\* C31: a fixture file appears only by the write at the end of the generator
\* of the scenario in progress, and the generator reaches that write only
\* through its whole chain in order, each step having returned: a signer
\* joins the signers only after fundWallet on its ensured wallet, the
\* multisig addresses are built after both signers, the watcher is ensured
\* after the addresses, the descriptor import follows a successful ensure,
\* the multisig funding follows the import, the pattern follows the funding
\* and the write follows the pattern.  Once a step has raised, the files
\* stay as they are to the end of the run, so no fixture of that scenario
\* is written.
C31_FixtureIsLastEffect ==
  /\ [](pc = "sv_write" =>
          /\ Len(signers) = NumSigners
          /\ \A k \in 1..NumSigners :
               /\ signers[k].wallet = SignerName(Scenarios[scen], k)
               /\ signers[k].wallet \in loaded
          /\ WatcherName(Scenarios[scen]) \in loaded
          /\ descriptor.script # ""
          /\ lastRpc.err = ""
          /\ Scenarios[scen] \notin files)
  /\ [](pc = "main_catch" /\ lastRpc.site \notin SetupSites /\ lastRpc.site # "su_info"
          /\ lastRpc.site # "cl_unload" /\ lastRpc.site # ""
          => Scenarios[scen] \notin files)
  /\ [][/\ files' # files =>
             /\ pc = "sv_write"
             /\ files' = files \cup {Scenarios[scen]}
        /\ pc = "main_catch" => files' = files /\ pc' = "idle"
        /\ (pc' = "sv_write" /\ pc # "sv_write") =>
             pc = "pt_pattern" /\ lastRpc'.err = ""
        /\ (pc' = "pt_pattern" /\ pc # "pt_pattern") =>
             pc = "fm_fund" /\ lastRpc'.err = ""
        /\ (pc' = "fm_fund" /\ pc # "fm_fund") => pc = "wt_import"
        /\ (pc' = "wt_import" /\ pc # "wt_import") =>
             /\ pc \in WatcherEnsurePcs
             /\ lastRpc'.err = ""
             /\ WatcherName(Scenarios[scen]) \in loaded'
        /\ (pc' \in WatcherEnsurePcs /\ pc \notin WatcherEnsurePcs) =>
             pc = "ms_addresses" /\ lastRpc'.err = ""
        /\ (pc' = "ms_addresses" /\ pc # "ms_addresses") =>
             pc = "sg_extract" /\ Len(signers') = NumSigners
        /\ (signers' # signers /\ signers' # <<>>) =>
             /\ pc = "sg_extract"
             /\ FundWalletRpc
             /\ Len(signers') = Len(signers) + 1
             /\ conn = SignerName(Scenarios[scen], Len(signers'))
             /\ conn \in loaded]_vars

\* The second scenario raised in its multisig funding after the first one
\* wrote its fixture: the first file is there, the second is not.
C31_Witness ==
  /\ pc = "main_catch"
  /\ scen = 2
  /\ lastRpc.site = "fm_fund"
  /\ lastRpc.err # ""
  /\ files = {Scenarios[1]}
  /\ filesAtStart = {}

\* The RPCs of a scenario's chain whose every error is raised to main.
ChainRaisingSites ==
  {"sg_list", "sg_create", "wt_list", "wt_create", "ms_addresses", "fm_fund",
   "pt_pattern"} \cup FwDirectSites

\* The last RPC failed inside a scenario's chain with an error the chain
\* does not absorb.
ChainRaised ==
  /\ lastRpc.err # ""
  /\ \/ lastRpc.site \in ChainRaisingSites
     \/ lastRpc.site \in {"sg_load", "wt_load"} /\ ~IsMissingCode(lastRpc.err)

\* The RPCs whose outcome depends on the wallets an earlier run left behind.
RerunSites ==
  SetupSites \cup {"su_info"} \cup EnsureSites \cup FwDirectSites \cup FwMinerPathSites

\* C32: an error raised in a scenario's chain takes the run to main's catch
\* with no later scenario visited and that scenario's file unwritten; from
\* there no RPC is issued, the files stay, and the process ends with exit
\* code 1; fixture files are never removed; in every run the generators that
\* run are exactly those of the scenarios without a file at the start of the
\* run, a run that returns has written all four, and in a run started after
\* a chain was entered once (the chain height is at least 101) the state the
\* earlier run left on the node makes no RPC of the setup, of an ensure step
\* or of fundWallet raise: these raise only on a new gateway failure.
C32_ErrorStopsRunRerunRecovers ==
  /\ [](ChainRaised =>
          /\ pc \in {"main_catch", "idle"}
          /\ filesAtStart \subseteq files
          /\ pc = "main_catch" =>
               /\ Len(visited) = scen
               /\ Scenarios[scen] \notin files
          /\ pc = "idle" => exitCode = 1)
  /\ [](\A i \in 1..Len(visited) :
          visited[i].ran <=> visited[i].name \notin filesAtStart)
  /\ [](pc = "main_done" =>
          /\ Len(visited) = Len(Scenarios)
          /\ files = ScenarioSet)
  /\ []((run >= 2 /\ pc = "main_catch" /\ blocks >= MatureHeight
           /\ lastRpc.site \in RerunSites)
          => lastRpc.err = "conn")
  /\ [][/\ files \subseteq files'
        /\ pc = "main_catch" =>
             /\ pc' = "idle"
             /\ exitCode' = 1
             /\ lastRpc' = lastRpc
             /\ visited' = visited
             /\ loaded' = loaded /\ onDisk' = onDisk]_vars

\* The first run wrote the first fixture and failed in a later scenario; the
\* second run skipped the first scenario, ran the other three and returned.
C32_Witness ==
  /\ run = 2
  /\ exitCode = 1
  /\ pc = "main_done"
  /\ filesAtStart = {Scenarios[1]}
  /\ ~visited[1].ran
  /\ \A i \in 2..Len(Scenarios) : visited[i].ran
  /\ files = ScenarioSet

(***************************************************************************)
(* One scenario's generator from createSignerWallets to saveCaravanConfig, *)
(* run on a node that holds the wallets of the other scenarios, loaded or  *)
(* not: both signers are ensured, funded and key-extracted, the watcher is *)
(* ensured, and the pattern is followed RPC by RPC.                        *)
(***************************************************************************)
\* The wallets of the scenarios other than s.
OtherWallets(s) == AllWallets \ (ScenarioWallets(s) \cup {Miner})

\* Of these, the ones a run that ended early left loaded.
OthersLoaded(s) == {w \in OtherWallets(s) : w[2] # "watcher"}

InitIsolation ==
  /\ pc = "sg_list"
  /\ run = 1
  /\ exitCode = -1
  /\ faults = 0
  /\ blocks = MatureHeight
  /\ scen \in 1..Len(Scenarios)
  /\ \E own \in {{}, {Miner} \cup ScenarioWallets(Scenarios[scen])} :
       /\ onDisk = own \cup OtherWallets(Scenarios[scen])
       /\ \E miner \in SUBSET (own \cap {Miner}) :
            loaded = miner \cup OthersLoaded(Scenarios[scen])
  /\ files = {}
  /\ filesAtStart = {}
  /\ visited = <<[name |-> Scenarios[scen], present |-> FALSE, ran |-> TRUE]>>
  /\ endLoaded = <<>>
  /\ cleanIdx = 1 /\ sgn = 0 /\ conn = NoWallet /\ signers = <<>>
  /\ lastRpc = NoRpc
  /\ ensureLog = <<>>
  /\ calls = 0
  /\ ledger = NoLedger
  /\ fw = NoFw
  /\ descriptor = NoDescriptor
  /\ kNode = <<>>
  /\ kRuns = <<>>
  /\ addrs = 0 /\ pays = <<>> /\ lp = NoLp /\ msCalls = <<>>
  /\ fixture = NoFixture
  /\ keyless = {w \in onDisk : w[2] = "watcher"}

NextIsolation ==
  \/ SgList \/ SgLoad \/ SgCreate
  \/ FwBalance \/ FwNewAddr \/ FwMine \/ FwBalance2
  \/ FwEmList \/ FwEmCreate \/ FwEmLoad
  \/ FwMinerBalance \/ FwSend \/ FwConfirm \/ FwFinal
  \/ SgExtract
  \/ MsAddresses
  \/ WtList \/ WtLoad \/ WtCreate \/ WtImport
  \/ FmFund
  \/ PtCall \/ PtBalance \/ PtAddr \/ PtSend \/ PtBatch \/ PtMineAddr \/ PtMine
  \/ SvWrite

SpecIsolation == InitIsolation /\ [][NextIsolation]_vars

\* The wallets scenario S's generator may address.
OwnWallets == ScenarioWallets(Scenarios[scen]) \cup {Miner}

\* C33: every RPC of the generator of scenario S that has a wallet context
\* or names a wallet is addressed to S_signer_1, S_signer_2, S_watcher or
\* 'miner'; every sendtoaddress and sendmany of the pattern generator is
\* issued from S_signer_1; and no step of the generator changes whether a
\* wallet of another scenario is on disk, is loaded or holds private keys.
C33_ScenarioIsolation ==
  /\ [](pc # "ga_access" =>
          /\ lastRpc.target \in OwnWallets \cup {NoWallet}
          /\ lastRpc.site \in SpendSites =>
               /\ lastRpc.method \in {"sendtoaddress", "sendmany"}
               /\ lastRpc.target = SignerName(Scenarios[scen], 1))
  /\ [][\A w \in OtherWallets(Scenarios[scen]) :
          /\ w \in loaded' <=> w \in loaded
          /\ w \in onDisk' <=> w \in onDisk
          /\ w \in keyless' <=> w \in keyless]_vars

\* A payment of the pattern generator was issued from S_signer_1 while the
\* wallets of the other scenarios are loaded, after the generator created
\* its own wallets.
C33_Witness ==
  /\ lastRpc.site \in SpendSites
  /\ lastRpc.target = SignerName(Scenarios[scen], 1)
  /\ OthersLoaded(Scenarios[scen]) \subseteq loaded
  /\ OtherWallets(Scenarios[scen]) \cap loaded = OthersLoaded(Scenarios[scen])
  /\ WatcherName(Scenarios[scen]) \in keyless
  /\ pc \in {"pt_addr", "pt_send", "pt_mine_addr"}

(***************************************************************************)
(* Properties of the fixture (Spec).                                       *)
(***************************************************************************)
\* The xpubs a key list or a descriptor mentions.
Elements(xs) == {xs[k] : k \in 1..Len(xs)}

FixtureXpubs(f) == {f.keys[k].xpub : k \in 1..Len(f.keys)}

\* C34: importdescriptors is addressed to the watcher of the scenario in
\* progress with a 2-of-n descriptor over exactly the xpubs of the signers;
\* and every fixture written names that watcher as client.walletName, has
\* quorum 2 of 2 and exactly 2 extendedPublicKeys, the k-th being signer k's
\* xpub, which together are the set of xpubs of the descriptor submitted to
\* the watcher in that generator.
C34_FixtureMatchesWatcher ==
  /\ [](lastRpc.site = "wt_import" =>
          /\ lastRpc.method = "importdescriptors"
          /\ lastRpc.target = WatcherName(Scenarios[scen]))
  /\ [](descriptor.script # "" =>
          /\ descriptor.required = RequiredSigners
          /\ Len(descriptor.keys) = NumSigners
          /\ Elements(descriptor.keys) = {signers[k].xpub : k \in 1..Len(signers)})
  /\ [][(fixture' # fixture /\ fixture' # NoFixture) =>
          /\ pc = "sv_write"
          /\ Scenarios[scen] \in files' \ files
          /\ fixture'.name = Scenarios[scen]
          /\ fixture'.walletName = WatcherName(Scenarios[scen])
          /\ fixture'.requiredSigners = 2 /\ fixture'.totalSigners = 2
          /\ Len(fixture'.keys) = 2
          /\ \A k \in 1..2 :
               /\ fixture'.keys[k].xpub = signers[k].xpub
               /\ fixture'.keys[k].name = SignerName(Scenarios[scen], k)
          /\ descriptor.script # ""
          /\ FixtureXpubs(fixture') = Elements(descriptor.keys)]_vars

\* A fixture was written whose two xpubs differ and stand in signer order
\* against the sorted order of the descriptor.
C34_Witness ==
  /\ fixture.name \in files
  /\ fixture.walletName = WatcherName(fixture.name)
  /\ Len(fixture.keys) = 2
  /\ LexLess(fixture.keys[2].xpub, fixture.keys[1].xpub)
  /\ lastRpc.site = "pt_pattern"

\* The signers whose keys are the fallback values: the node's fingerprint is
\* not theirs.
FromFallback(sg) == sg.xfp # NodeXfp

\* C35: the k-th signer is the one createSignerWallets extracted with
\* signerIndex i = k - 1; when its keys are the fallback values its
\* fingerprint is the decimal rendering of i, zero-padded to 4 digits, twice:
\* 8 characters.
C35_FallbackFingerprint ==
  \A k \in 1..Len(signers) :
    FromFallback(signers[k]) =>
      /\ Len(signers[k].xfp) = 8
      /\ signers[k].xfp = PadStart(Digits(k - 1), 4, 0) \o PadStart(Digits(k - 1), 4, 0)

====
